---- MODULE Spec2Model ----
(***************************************************************************)
(* Group-based policy: the validation/repair engine (aim_validation.py),   *)
(* the APIC name mapper (apic_mapper.py) and the resource-mapping driver   *)
(* (resource_mapping.py, neutron_resources.py).  Each component has its    *)
(* own specification (SpecVal, SpecMap, SpecRmd); the variables of the     *)
(* other components keep their initial values.                             *)
(***************************************************************************)
EXTENDS Integers, Sequences, FiniteSets, TLC

VARIABLES
    \* ---- validation/repair engine (ValidationManager) ----
    aim_store,      \* actual AIM resources, committed: identity -> resource
    desired,        \* AIM resources implied by the Neutron/GBP state
    map_broken,     \* committed mapping records that need (and allow) repair
    unrepairable,   \* mapping problems validation cannot repair
    ndrift,         \* number of drifts injected so far
    v_pc,           \* position of validate()
    repair,         \* self.repair
    result,         \* self.result
    session,        \* the open transaction's view: [aim, map]
    pending,        \* mapping problems the mapping phase has not visited yet
    expected,       \* self._expected_aim_resources (entries are consumed)
    classes_left,   \* resource classes _validate_aim_resources has not done
    cur,            \* resource class being validated (<<>> when none)
    actual_resources, \* rest of the list returned by aim_mgr.find
    missing_done,   \* expected entries the missing loop has visited
    ops,            \* writes issued in this run
    run_info,       \* facts about the state validate() started from
    last,           \* the run that finished last, if nothing happened since
    \* ---- APIC name mapper (APICNameMapper) ----
    apic_names,     \* the name store: <<id, name type>> -> persisted record
    strategy,       \* inst.strategy
    min_suffix,     \* inst.min_suffix
    db_filters,     \* whether inst.db has get_filtered_apic_names
    ncalls,         \* number of name mapper operations so far
    call,           \* the last name mapper operation and what it returned
    first,          \* <<id, name type, prefix>> -> the name returned by the
                    \* first mapping call since the id was last remapped or
                    \* deleted
    remapped,       \* <<id, name type>> -> the name persisted by the call
                    \* that remapped the id last, if the id was not deleted
                    \* since
    md,             \* the last call of the mechanism driver apart from its
                    \* name mapper (port binding, RPC handler, sync state)
                    \* and what it did
    \* ---- resource mapping driver (ResourceMappingDriver) ----
    neutron,        \* Neutron: networks, subnets, ports, routers and router
                    \* interfaces
    owned,          \* the OwnedPort/OwnedSubnet/OwnedNetwork/OwnedRouter rows
    gbp,            \* the policy objects: L3 and L2 policies, groups, targets
    next_id,        \* number of resources Neutron has created
    ctx,            \* the context of the operation between its two hooks
    outcome,        \* how the last hook ended
    scope,          \* the ids and tenants the plugin's callers use
    chains,         \* the service chain instances and the rows of
                    \* PtgServiceChainInstanceMapping
    procs           \* the executions of one driver method that run
                    \* concurrently: the position and the locals of each

valVars == <<aim_store, desired, map_broken, unrepairable, ndrift, v_pc, repair,
             result, session, pending, expected, classes_left, cur,
             actual_resources, missing_done, ops, run_info, last>>

mapVars == <<apic_names, strategy, min_suffix, db_filters, ncalls, call,
             first, remapped, md>>

rmdVars == <<neutron, owned, gbp, next_id, ctx, outcome, scope, chains,
             procs>>

vars == <<valVars, mapVars, rmdVars>>

-----------------------------------------------------------------------------
(* Bounds *)

MaxDrift == 2

MaxCalls == 2

MaxCreated == 5

PoolSize == 2

\* The service chain instances the service chain plugin can hold.
MaxChains == 4

-----------------------------------------------------------------------------
(* Validation/repair engine: aim_validation.py *)

VALIDATION_PASSED == "passed"
VALIDATION_REPAIRED == "repaired"
VALIDATION_FAILED == "failed"

\* Two resource classes: one with the monitored attribute, one (an infra
\* resource) without it.
Classes == {"BridgeDomain", "HostLink"}

Keys == {<<"BridgeDomain", "bd1">>, <<"BridgeDomain", "bd2">>,
         <<"HostLink", "h1">>}

KeysOf(c) == {k \in Keys : k[1] = c}

\* other_attributes of each class: the comparable non-identity attributes.
other_attributes(c) ==
    IF c = "BridgeDomain"
    THEN {[name |-> "monitored", type |-> "boolean"],
          [name |-> "l3out_names", type |-> "array"]}
    ELSE {[name |-> "display_name", type |-> "string"]}

ArrayValues == {<<"x", "y">>, <<"y", "x">>, <<"x">>}

Values(c) ==
    IF c = "BridgeDomain"
    THEN [monitored : BOOLEAN, l3out_names : ArrayValues]
    ELSE [display_name : {"d1", "d2"}]

\* What the mapping logic derives for a key that is expected.
ExpectedValues(c) ==
    IF c = "BridgeDomain"
    THEN [monitored : BOOLEAN, l3out_names : {<<"x", "y">>}]
    ELSE [display_name : {"d1"}]

Remove(f, k) == [x \in DOMAIN f \ {k} |-> f[x]]

Put(f, k, v) == [x \in DOMAIN f \cup {k} |-> IF x = k THEN v ELSE f[x]]

EmptyMap == [x \in {} |-> TRUE]

\* getattr(resource, 'monitored', True)
MonitoredDefaultFalse(r) ==
    IF "monitored" \in DOMAIN r THEN r["monitored"] ELSE FALSE

Monitored(r) ==
    IF "monitored" \in DOMAIN r THEN r["monitored"] ELSE TRUE

AsSet(s) == {s[i] : i \in DOMAIN s}

\* ValidationManager._is_resource_correct
OrderedCompare(c, expected_resource, actual_resource) ==
    \A a \in other_attributes(c) :
        expected_resource[a.name] = actual_resource[a.name]

_is_resource_correct(c, expected_resource, actual_resource) ==
    \A a \in other_attributes(c) :
        IF a.type = "array"
        THEN AsSet(expected_resource[a.name]) = AsSet(actual_resource[a.name])
        ELSE expected_resource[a.name] = actual_resource[a.name]

\* ValidationManager.should_repair: the returned flag and the new result.
ShouldRepairIgnoringFailed(rep, res) ==
    IF rep
    THEN [ok |-> TRUE, result |-> VALIDATION_REPAIRED]
    ELSE [ok |-> FALSE, result |-> VALIDATION_FAILED]

ShouldRepairIgnoringFlag(rep, res) ==
    IF res # VALIDATION_FAILED
    THEN [ok |-> TRUE, result |-> VALIDATION_REPAIRED]
    ELSE [ok |-> FALSE, result |-> VALIDATION_FAILED]

should_repair(rep, res) ==
    IF rep /\ res # VALIDATION_FAILED
    THEN [ok |-> TRUE, result |-> VALIDATION_REPAIRED]
    ELSE [ok |-> FALSE, result |-> VALIDATION_FAILED]

\* aim_mgr.delete / aim_mgr.create on the session's view of the store.
DeleteNothing(store, k) == store

aim_delete(store, k) == Remove(store, k)

aim_create(store, k, r) == Put(store, k, r)

\* The three kinds of drift between the actual and the expected resources
\* (what the tests inject): a resource is externally managed when it is
\* flagged monitored or has no such flag.
ExternallyManaged(r) == "monitored" \notin DOMAIN r \/ r["monitored"]

Missing(actual, exp) == DOMAIN exp \ DOMAIN actual

Unexpected(actual, exp) ==
    {k \in DOMAIN actual \ DOMAIN exp : ~ExternallyManaged(actual[k])}

Incorrect(actual, exp) ==
    {k \in DOMAIN actual \cap DOMAIN exp :
        /\ ~ExternallyManaged(exp[k])
        /\ \E a \in other_attributes(k[1]) :
              IF a.type = "array"
              THEN AsSet(exp[k][a.name]) # AsSet(actual[k][a.name])
              ELSE exp[k][a.name] # actual[k][a.name]}

Problems(actual, exp) ==
    Missing(actual, exp) \cup Unexpected(actual, exp) \cup Incorrect(actual, exp)

NoRun == [valid |-> FALSE, repair |-> FALSE, result |-> VALIDATION_PASSED,
          single |-> FALSE, follows |-> FALSE, problems |-> 0]

NoInfo == [single |-> FALSE, follows |-> FALSE, problems |-> 0]

NoClass == <<>>

ValInit ==
    /\ desired \in
         {d \in UNION {[D -> UNION {ExpectedValues(c) : c \in Classes}] :
                          D \in SUBSET Keys} :
             /\ <<"BridgeDomain", "bd1">> \in DOMAIN d
             /\ \A k \in DOMAIN d : d[k] \in ExpectedValues(k[1])
             /\ ~d[<<"BridgeDomain", "bd1">>].monitored}
    /\ aim_store = desired
    /\ map_broken = {}
    /\ unrepairable \in {{}, {"u1"}}
    /\ ndrift = 0
    /\ v_pc = "idle"
    /\ repair = FALSE
    /\ result = VALIDATION_PASSED
    /\ session = [aim |-> EmptyMap, map |-> {}]
    /\ pending = {}
    /\ expected = EmptyMap
    /\ classes_left = {}
    /\ cur = NoClass
    /\ actual_resources = {}
    /\ missing_done = {}
    /\ ops = {}
    /\ run_info = NoInfo
    /\ last = NoRun

runVars == <<repair, result, session, pending, expected, classes_left, cur,
             actual_resources, missing_done, ops, run_info>>

\* The fabric store is changed behind the driver's back (the tests do it with
\* aim_mgr.delete / update / create).
Drift ==
    /\ v_pc = "idle"
    /\ ndrift < MaxDrift
    /\ \E k \in Keys :
          \/ /\ k \in DOMAIN aim_store
             /\ aim_store' = Remove(aim_store, k)
          \/ \E v \in Values(k[1]) :
                /\ IF k \in DOMAIN aim_store THEN aim_store[k] # v ELSE TRUE
                /\ aim_store' = Put(aim_store, k, v)
    /\ ndrift' = ndrift + 1
    /\ last' = NoRun
    /\ UNCHANGED <<desired, map_broken, unrepairable, v_pc, runVars>>
    /\ UNCHANGED <<mapVars, rmdVars>>

\* A mapping record gets lost or damaged.
DriftMapping ==
    /\ v_pc = "idle"
    /\ ndrift < MaxDrift
    /\ "m1" \notin map_broken
    /\ map_broken' = map_broken \cup {"m1"}
    /\ ndrift' = ndrift + 1
    /\ last' = NoRun
    /\ UNCHANGED <<aim_store, desired, unrepairable, v_pc, runVars>>
    /\ UNCHANGED <<mapVars, rmdVars>>

\* validate(), lines 42-59: reset the result, open the session.
ValidateBegin ==
    /\ v_pc = "idle"
    /\ \E rep \in BOOLEAN :
          /\ repair' = rep
          /\ run_info' =
               [single |-> /\ Cardinality(Problems(aim_store, desired)) = 1
                           /\ map_broken = {} /\ unrepairable = {},
                follows |-> ~rep /\ last.valid /\ last.repair /\ last.single,
                problems |-> Cardinality(Problems(aim_store, desired))
                             + Cardinality(map_broken \cup unrepairable)]
    /\ result' = VALIDATION_PASSED
    /\ session' = [aim |-> aim_store, map |-> map_broken]
    /\ pending' = map_broken \cup unrepairable
    /\ expected' = EmptyMap
    /\ classes_left' = {}
    /\ cur' = NoClass
    /\ actual_resources' = {}
    /\ missing_done' = {}
    /\ ops' = {}
    /\ v_pc' = "mapping"
    /\ last' = NoRun
    /\ UNCHANGED <<aim_store, desired, map_broken, unrepairable, ndrift>>
    /\ UNCHANGED <<mapVars, rmdVars>>

\* One problem found by validate_neutron_mapping / validate_aim_mapping: a
\* repairable one asks should_repair, an unrepairable one calls repair_failed.
ValidateMapping ==
    /\ v_pc = "mapping"
    /\ \E p \in pending :
          /\ pending' = pending \ {p}
          /\ IF p \in unrepairable
             THEN /\ result' = VALIDATION_FAILED
                  /\ UNCHANGED <<session, ops>>
             ELSE LET sr == should_repair(repair, result) IN
                  /\ result' = sr.result
                  /\ IF sr.ok
                     THEN /\ session' = [session EXCEPT !.map = @ \ {p}]
                          /\ ops' = ops \cup {<<"repair_mapping", p>>}
                     ELSE UNCHANGED <<session, ops>>
    /\ UNCHANGED <<aim_store, desired, map_broken, unrepairable, ndrift, v_pc,
                   repair, expected, classes_left, cur, actual_resources,
                   missing_done, run_info, last>>
    /\ UNCHANGED <<mapVars, rmdVars>>

\* The mapping phase is over: the expected resources are known, and the
\* actual resources are validated unless the result is failed (lines 65-80).
ExpectAimResources ==
    /\ v_pc = "mapping"
    /\ pending = {}
    /\ expected' = desired
    /\ IF result # VALIDATION_FAILED
       THEN /\ classes_left' = Classes
            /\ v_pc' = "aim_resources"
       ELSE /\ classes_left' = {}
            /\ v_pc' = "finish"
    /\ UNCHANGED <<aim_store, desired, map_broken, unrepairable, ndrift, repair,
                   result, session, pending, cur, actual_resources,
                   missing_done, ops, run_info, last>>
    /\ UNCHANGED <<mapVars, rmdVars>>

MissingToDo ==
    IF cur = NoClass THEN {}
    ELSE (KeysOf(cur[1]) \cap DOMAIN expected) \ missing_done

ClassDone == cur = NoClass \/ (actual_resources = {} /\ MissingToDo = {})

\* _validate_aim_resource_class, lines 131-134.
ValidateAimResourceClass ==
    /\ v_pc = "aim_resources"
    /\ ClassDone
    /\ \E c \in classes_left :
          /\ cur' = <<c>>
          /\ classes_left' = classes_left \ {c}
          /\ actual_resources' = KeysOf(c) \cap DOMAIN session.aim
    /\ missing_done' = {}
    /\ UNCHANGED <<aim_store, desired, map_broken, unrepairable, ndrift, v_pc,
                   repair, result, session, pending, expected, ops, run_info,
                   last>>
    /\ UNCHANGED <<mapVars, rmdVars>>

\* _handle_unexpected_aim_resource
_handle_unexpected_aim_resource(k) ==
    LET sr == should_repair(repair, result) IN
    /\ result' = sr.result
    /\ IF sr.ok
       THEN /\ session' = [session EXCEPT !.aim = aim_delete(@, k)]
            /\ ops' = ops \cup {<<"delete", k>>}
       ELSE UNCHANGED <<session, ops>>

\* _handle_incorrect_aim_resource
_handle_incorrect_aim_resource(k) ==
    LET sr == should_repair(repair, result) IN
    /\ result' = sr.result
    /\ IF sr.ok
       THEN /\ session' = [session EXCEPT !.aim = aim_create(@, k, expected[k])]
            /\ ops' = ops \cup {<<"overwrite", k>>}
       ELSE UNCHANGED <<session, ops>>

\* _validate_actual_aim_resource, lines 143-164.
ValidateActualAimResource ==
    /\ v_pc = "aim_resources"
    /\ \E k \in actual_resources :
          /\ actual_resources' = actual_resources \ {k}
          /\ IF k \notin DOMAIN expected
             THEN /\ IF ~Monitored(session.aim[k])
                     THEN _handle_unexpected_aim_resource(k)
                     ELSE UNCHANGED <<result, session, ops>>
                  /\ UNCHANGED expected
             ELSE /\ IF Monitored(expected[k])
                     THEN UNCHANGED <<result, session, ops>>
                     ELSE IF ~_is_resource_correct(k[1], expected[k],
                                                   session.aim[k])
                          THEN _handle_incorrect_aim_resource(k)
                          ELSE UNCHANGED <<result, session, ops>>
                  /\ expected' = Remove(expected, k)
    /\ UNCHANGED <<aim_store, desired, map_broken, unrepairable, ndrift, v_pc,
                   repair, pending, classes_left, cur, missing_done, run_info,
                   last>>
    /\ UNCHANGED <<mapVars, rmdVars>>

\* _handle_missing_aim_resource, for one entry left in the expected dict.
HandleMissingAimResource ==
    /\ v_pc = "aim_resources"
    /\ actual_resources = {}
    /\ \E k \in MissingToDo :
          LET sr == should_repair(repair, result) IN
          /\ missing_done' = missing_done \cup {k}
          /\ result' = sr.result
          /\ IF sr.ok
             THEN /\ session' = [session EXCEPT
                                   !.aim = aim_create(@, k, expected[k])]
                  /\ ops' = ops \cup {<<"create", k>>}
             ELSE UNCHANGED <<session, ops>>
    /\ UNCHANGED <<aim_store, desired, map_broken, unrepairable, ndrift, v_pc,
                   repair, pending, expected, classes_left, cur,
                   actual_resources, run_info, last>>
    /\ UNCHANGED <<mapVars, rmdVars>>

\* validate(), lines 84-94: commit or roll back.
CommitUnlessPassed(res) == res # VALIDATION_PASSED

Commits(res) == res = VALIDATION_REPAIRED

ValidateEnd ==
    /\ \/ v_pc = "finish"
       \/ v_pc = "aim_resources" /\ classes_left = {} /\ ClassDone
    /\ IF Commits(result)
       THEN /\ aim_store' = session.aim
            /\ map_broken' = session.map
       ELSE UNCHANGED <<aim_store, map_broken>>
    /\ last' = [valid |-> TRUE, repair |-> repair, result |-> result,
                single |-> run_info.single, follows |-> run_info.follows,
                problems |-> run_info.problems]
    /\ v_pc' = "idle"
    /\ UNCHANGED <<desired, unrepairable, ndrift, runVars>>
    /\ UNCHANGED <<mapVars, rmdVars>>

ValNext ==
    \/ Drift
    \/ DriftMapping
    \/ ValidateBegin
    \/ ValidateMapping
    \/ ExpectAimResources
    \/ ValidateAimResourceClass
    \/ ValidateActualAimResource
    \/ HandleMissingAimResource
    \/ ValidateEnd


-----------------------------------------------------------------------------
(* APIC name mapper: apic_mapper.py.  Names and ids are sequences of        *)
(* one-character strings.                                                   *)

NAMING_STRATEGY_UUID == "use_uuid"
NAMING_STRATEGY_NAMES == "use_name"
NAME_TYPE_TENANT == "tenant"
NAME_TYPE_NETWORK == "network"

MAX_APIC_NAME_LENGTH == 46

DefaultMinSuffix == 5

\* truncate(string, max_length)
truncate(string, max_length) ==
    IF max_length < 0 THEN <<>>
    ELSE IF Len(string) > max_length
         THEN SubSeq(string, 1, max_length) ELSE string

\* string[:n]
Slice(string, n) == SubSeq(string, 1, IF Len(string) < n THEN Len(string) ELSE n)

\* re.sub(r"-+", "-", string)
RECURSIVE purge(_)
purge(string) ==
    IF Len(string) < 2 THEN string
    ELSE IF string[1] = "-" /\ string[2] = "-"
         THEN purge(Tail(string))
         ELSE <<string[1]>> \o purge(Tail(string))

\* string.replace(' ', '')
RemoveSpaces(string) == SelectSeq(string, LAMBDA ch : ch # " ")

\* db.get_filtered_apic_names(session, neutron_type=..., apic_name=...)
get_filtered_apic_names(store, name_type, apic_name) ==
    {k \in DOMAIN store : k[2] = name_type /\ store[k].name = apic_name}

\* db.delete_apic_name(session, resource_id)
DeleteNoApicName(store, resource_id) == store

db_delete_apic_name(store, resource_id) ==
    [k \in {x \in DOMAIN store : x[1] # resource_id} |-> store[k]]

\* The <<name type, name>> pairs persisted for an id: what delete_apic_name
\* removes.
NamesOf(store, resource_id) ==
    {<<k[2], store[k].name>> : k \in {x \in DOMAIN store : x[1] = resource_id}}

\* The loop of _grow_id_if_needed, lines 156-166, left by break or IndexError.
\* appended is x at the exit: the number of id characters put behind the name.
StopAtOnce(store, resource_id, name_type, res, start, x) ==
    [result |-> res, log |-> "none", appended |-> x]

RECURSIVE GrowLoop(_, _, _, _, _, _)
GrowLoop(store, resource_id, name_type, res, start, x) ==
    IF get_filtered_apic_names(store, name_type, res) # {}
    THEN LET r1 == IF x = 0 /\ start = 0 THEN res \o <<"_">> ELSE res IN
         IF start + x >= Len(resource_id)
         THEN [result |-> r1, log |-> "ran_out", appended |-> x]
         ELSE GrowLoop(store, resource_id, name_type,
                       r1 \o <<resource_id[start + x + 1]>>, start, x + 1)
    ELSE [result |-> res, log |-> "none", appended |-> x]

\* APICNameMapper._grow_id_if_needed
GrowNever(store, filters, resource_id, name_type, current_result, start) ==
    [result |-> current_result, log |-> "none", appended |-> 0]

_grow_id_if_needed(store, filters, resource_id, name_type, current_result, start) ==
    LET res == IF Len(current_result) > 0
                  /\ current_result[Len(current_result)] = "_"
               THEN SubSeq(current_result, 1, Len(current_result) - 1)
               ELSE current_result
    IN IF filters
       THEN GrowLoop(store, resource_id, name_type, res, start, 0)
       ELSE [result |-> res, log |-> "no_filter", appended |-> 0]

\* Lines 117-137 of the mapper wrapper: the name computed for an id.
ComputeName(store, strat, suffix, filters, name_type, resource_id, name) ==
    LET purged_id == purge(resource_id)
        res == Slice(purged_id, suffix)
    IN IF Len(name) > 0
       THEN LET nm == purge(name)
                r1 == IF strat = NAMING_STRATEGY_NAMES
                      THEN nm
                      ELSE LET id_suffix == <<"_">> \o res
                               max_name_length ==
                                   MAX_APIC_NAME_LENGTH - Len(id_suffix)
                           IN truncate(nm, max_name_length) \o id_suffix
                r2 == RemoveSpaces(truncate(r1, MAX_APIC_NAME_LENGTH))
            IN IF strat = NAMING_STRATEGY_UUID
               THEN _grow_id_if_needed(store, filters, purged_id, name_type,
                                       r2, suffix)
               ELSE [result |-> r2, log |-> "none"]
       ELSE [result |-> purged_id, log |-> "none"]

\* Lines 105-107 and 141-143: the prefix is put in front of the returned name.
WithPrefix(prefix, res) ==
    IF Len(prefix) > 0
    THEN truncate(prefix \o res, MAX_APIC_NAME_LENGTH)
    ELSE res

NameTypes == {NAME_TYPE_TENANT, NAME_TYPE_NETWORK}

IdLong == <<"a", "-", "a", "a", "a", "b">>
IdShort == <<"a", "-", "-", "a", "a", "a">>

Ids == {IdLong, IdShort}

NoName == <<>>
SpacedName == <<"w", " ", "-", "-", "b">>
LongName == [i \in 1..MAX_APIC_NAME_LENGTH |-> "n"]

ResourceNames == {NoName, SpacedName, LongName}

Prefixes == {<<>>, <<"p", "_">>}

MinSuffixes == {0, DefaultMinSuffix}

NoMd == [op |-> "none"]

NoCall == [op |-> "none", kind |-> "none", id |-> <<>>, type |-> "",
           prefix |-> <<>>, remap |-> FALSE, value |-> <<>>, log |-> "none",
           raised |-> FALSE, dropped |-> {}]

MapInit ==
    /\ apic_names = EmptyMap
    /\ strategy \in {NAMING_STRATEGY_UUID, NAMING_STRATEGY_NAMES}
    /\ min_suffix \in IF strategy = NAMING_STRATEGY_UUID
                      THEN MinSuffixes ELSE {DefaultMinSuffix}
    /\ db_filters \in IF strategy = NAMING_STRATEGY_UUID THEN BOOLEAN
                                                         ELSE {TRUE}
    /\ ncalls = 0
    /\ call = NoCall
    /\ first = EmptyMap
    /\ remapped = EmptyMap
    /\ md = NoMd

\* Lines 97-104: without remap, a persisted name is looked up and used.
UseSavedNever(store, remap_, key) == FALSE

UseSaved(store, remap_, key) == ~remap_ /\ key \in DOMAIN store

\* A history table without the entries of an id.
Without(table, resource_id) ==
    [k \in {x \in DOMAIN table : x[1] # resource_id} |-> table[k]]

\* Lines 110-115: the decorated function returns the resource name it is
\* given; when it raises the exception is logged and name stays ''.
FuncKeepsName(resource_name, raises) == resource_name

func(resource_name, raises) == IF raises THEN <<>> ELSE resource_name

\* The names first returned, after a mapping call that returned value.
FirstAfterCall(resource_id, name_type, prefix, remap_, value) ==
    LET key == <<resource_id, name_type, prefix>>
        kept == IF remap_
                THEN [k \in {x \in DOMAIN first : x[1] # resource_id}
                         |-> first[k]]
                ELSE first
    IN IF key \in DOMAIN kept THEN kept ELSE Put(kept, key, value)

\* A decorated mapper (tenant, network, ...): the wrapper inner, lines 92-145.
\* The record keeps, beside the persisted name, the resource name it was
\* derived from and what _grow_id_if_needed logged.
mapper(name_type, resource_id, resource_name, remap_, prefix, existing, raises) ==
    IF existing
    THEN /\ call' = [op |-> "mapper", kind |-> "existing",
                     id |-> resource_id, type |-> name_type,
                     prefix |-> prefix, remap |-> FALSE,
                     value |-> resource_id, log |-> "none",
                     raised |-> FALSE, dropped |-> {}]
         /\ UNCHANGED <<apic_names, first, remapped>>
    ELSE IF UseSaved(apic_names, remap_, <<resource_id, name_type>>)
    THEN LET value == WithPrefix(prefix,
                          apic_names[<<resource_id, name_type>>].name)
         IN /\ call' = [op |-> "mapper", kind |-> "saved",
                        id |-> resource_id, type |-> name_type,
                        prefix |-> prefix, remap |-> FALSE, value |-> value,
                        log |-> "none", raised |-> FALSE, dropped |-> {}]
            /\ first' = FirstAfterCall(resource_id, name_type, prefix, FALSE,
                                       value)
            /\ UNCHANGED <<apic_names, remapped>>
    ELSE LET store == IF remap_
                      THEN db_delete_apic_name(apic_names, resource_id)
                      ELSE apic_names
             name == func(resource_name, raises)
             c == ComputeName(store, strategy, min_suffix, db_filters,
                              name_type, resource_id, name)
             value == WithPrefix(prefix, c.result)
         IN /\ apic_names' = Put(store, <<resource_id, name_type>>,
                                 [name |-> c.result, human |-> name])
            /\ call' = [op |-> "mapper", kind |-> "computed",
                        id |-> resource_id, type |-> name_type,
                        prefix |-> prefix, remap |-> remap_, value |-> value,
                        log |-> c.log, raised |-> raises,
                        dropped |-> IF remap_
                                    THEN NamesOf(apic_names, resource_id)
                                    ELSE {}]
            /\ first' = FirstAfterCall(resource_id, name_type, prefix, remap_,
                                       value)
            /\ remapped' = IF remap_
                           THEN Put(Without(remapped, resource_id),
                                    <<resource_id, name_type>>, c.result)
                           ELSE remapped

\* A call of a mapper.  With existing=True the resource name and remap are
\* not looked at, so one value of each is tried; neither is the decorated
\* function called.  When the decorated function raises it has returned no
\* name, so one resource name is tried.
Mapper ==
    /\ ncalls < MaxCalls
    /\ \E name_type \in NameTypes, resource_id \in Ids,
          prefix \in Prefixes :
          \/ mapper(name_type, resource_id, NoName, FALSE, prefix, TRUE, FALSE)
          \/ \E resource_name \in ResourceNames, remap_ \in BOOLEAN :
                mapper(name_type, resource_id, resource_name, remap_, prefix,
                       FALSE, FALSE)
          \/ \E remap_ \in BOOLEAN :
                mapper(name_type, resource_id, SpacedName, remap_, prefix,
                       FALSE, TRUE)
    /\ ncalls' = ncalls + 1
    /\ UNCHANGED <<strategy, min_suffix, db_filters, md>>
    /\ UNCHANGED <<valVars, rmdVars>>

\* APICNameMapper.delete_apic_name
DeleteApicName ==
    /\ ncalls < MaxCalls
    /\ \E object_id \in Ids :
          /\ apic_names' = db_delete_apic_name(apic_names, object_id)
          /\ call' = [NoCall EXCEPT !.op = "delete_apic_name",
                                    !.id = object_id]
          /\ first' = [k \in {x \in DOMAIN first : x[1] # object_id}
                          |-> first[k]]
          /\ remapped' = Without(remapped, object_id)
    /\ ncalls' = ncalls + 1
    /\ UNCHANGED <<strategy, min_suffix, db_filters, md>>
    /\ UNCHANGED <<valVars, rmdVars>>

MapNext == Mapper \/ DeleteApicName

\* _grow_id_if_needed on its own: a name, an id and an offset, over a store
\* in which any of the names the loop can come to are taken by other
\* networks, and all of them by tenants.
GrowIds == {<<"a", "b">>, <<"a", "b", "c">>}

GrowResults == {<<"n">>, <<"n", "_">>}

GrowNames ==
    {<<"n">>, <<"n", "_", "a">>, <<"n", "_", "a", "b">>,
     <<"n", "_", "a", "b", "c">>, <<"n", "b">>, <<"n", "b", "c">>,
     <<"n", "c">>}

MaxStart == 3

StoreOf(names) ==
    [k \in ({<<n, NAME_TYPE_NETWORK>> : n \in names}
             \cup {<<n, NAME_TYPE_TENANT>> : n \in GrowNames})
        |-> [name |-> k[1], human |-> <<"n">>]]

GrowInit ==
    /\ apic_names \in {StoreOf(names) : names \in SUBSET GrowNames}
    /\ strategy = NAMING_STRATEGY_UUID
    /\ min_suffix \in 0..MaxStart
    /\ db_filters \in BOOLEAN
    /\ ncalls = 0
    /\ call = NoCall
    /\ first = EmptyMap
    /\ remapped = EmptyMap
    /\ md = NoMd

\* APICNameMapper._grow_id_if_needed(session, resource_id, name_type,
\* current_result, start)
grow_id_if_needed ==
    /\ ncalls < MaxCalls
    /\ \E resource_id \in GrowIds, current_result \in GrowResults :
          LET g == _grow_id_if_needed(apic_names, db_filters, resource_id,
                                      NAME_TYPE_NETWORK, current_result,
                                      min_suffix)
          IN call' = [op |-> "_grow_id_if_needed", id |-> resource_id,
                      type |-> NAME_TYPE_NETWORK,
                      current_result |-> current_result,
                      value |-> g.result, log |-> g.log,
                      appended |-> g.appended]
    /\ ncalls' = ncalls + 1
    /\ UNCHANGED <<apic_names, strategy, min_suffix, db_filters, first,
                   remapped, md>>
    /\ UNCHANGED <<valVars, rmdVars>>

GrowNext == grow_id_if_needed

-----------------------------------------------------------------------------
(* APIC mechanism driver: mechanism_driver.py, and the RPC handlers of      *)
(* aim_mapping_rpc.py.  A call is one step; md keeps its arguments and what *)
(* it did, and one call is followed.  A dict is a function on its keys,     *)
(* None is the string "None".                                               *)

SYNC_SYNCED == "synced"
SYNC_BUILD == "build"
SYNC_ERROR == "error"

\* What aim.get_status returns, by its is_error() and is_build().
Statuses == [is_error : BOOLEAN, is_build : BOOLEAN]

\* ApicMechanismDriver._merge_status
MergeLastWins(sync_state, status) ==
    IF status.is_error THEN SYNC_ERROR
    ELSE IF status.is_build THEN SYNC_BUILD
    ELSE sync_state

_merge_status(sync_state, status) ==
    IF status.is_error THEN SYNC_ERROR
    ELSE IF status.is_build /\ sync_state # SYNC_ERROR THEN SYNC_BUILD
    ELSE sync_state

\* sync_state = self._merge_status(sync_state, status), status by status
RECURSIVE MergeAll(_, _)
MergeAll(sync_state, statuses) ==
    IF statuses = <<>> THEN sync_state
    ELSE MergeAll(_merge_status(sync_state, Head(statuses)), Tail(statuses))

MaxStatuses == 3

SeqsUpTo(S, n) == UNION {[1..k -> S] : k \in 0..n}

\* extend_network_dict, as far as the sync state goes: the statuses of the
\* bridge domain and of the endpoint group are merged
extend_network_dict ==
    /\ md.op = "none"
    /\ \E bd_status \in Statuses, epg_status \in Statuses :
          md' = [op |-> "extend_network_dict",
                 statuses |-> <<bd_status, epg_status>>,
                 sync_state |-> _merge_status(
                                    _merge_status(SYNC_SYNCED, bd_status),
                                    epg_status)]
    /\ UNCHANGED <<apic_names, strategy, min_suffix, db_filters, ncalls, call,
                   first, remapped>>
    /\ UNCHANGED <<valVars, rmdVars>>

\* The sync state of an entity with any number of fabric objects.
MergeStatuses ==
    /\ md.op = "none"
    /\ \E statuses \in SeqsUpTo(Statuses, MaxStatuses) :
          md' = [op |-> "merge_statuses", statuses |-> statuses,
                 sync_state |-> MergeAll(SYNC_SYNCED, statuses)]
    /\ UNCHANGED <<apic_names, strategy, min_suffix, db_filters, ncalls, call,
                   first, remapped>>
    /\ UNCHANGED <<valVars, rmdVars>>

AGENT_TYPE_DVS == "DVS agent"
AGENT_TYPE_OPFLEX_OVS == "OpFlex Open vSwitch agent"
VNIC_NORMAL == "normal"

MaxAgents == 2
MaxSegments == 2

\* The agents of a host: alive or not, with the physical networks of its
\* configuration's opflex_networks ("None" when it has none).
AgentInputs == [alive : BOOLEAN, opflex_networks : {"None", "physnet1"}]

SegmentInputs ==
    {[id |-> "s1", network_type |-> "opflex", physical_network |-> "physnet1"],
     [id |-> "s2", network_type |-> "opflex", physical_network |-> "physnet2"],
     [id |-> "s3", network_type |-> "local", physical_network |-> "None"],
     [id |-> "s4", network_type |-> "vlan", physical_network |-> "physnet1"]}

\* _opflex_bind_port: whether context.set_binding is called, and what is
\* returned
_opflex_bind_port(segment, agent) ==
    IF segment.network_type = "opflex"
    THEN IF /\ agent.opflex_networks # "None"
            /\ segment.physical_network # agent.opflex_networks
         THEN [set_binding |-> FALSE, ret |-> "False"]
         ELSE [set_binding |-> TRUE, ret |-> "None"]
    ELSE IF segment.network_type # "local"
         THEN [set_binding |-> FALSE, ret |-> "False"]
         ELSE [set_binding |-> TRUE, ret |-> "None"]

\* _dvs_bind_port
_dvs_bind_port(segment, agent) == [set_binding |-> FALSE, ret |-> "False"]

bind_strategy(agent_type, segment, agent) ==
    IF agent_type = AGENT_TYPE_DVS THEN _dvs_bind_port(segment, agent)
    ELSE _opflex_bind_port(segment, agent)

\* The loops of _agent_bind_port from agent i and segment j on; log is the
\* list of the calls of the bind strategy made so far.
RECURSIVE AgentLoop(_, _, _, _, _, _)
AgentLoop(agent_type, agents, segments, i, j, log) ==
    IF i > Len(agents) THEN log
    ELSE IF ~agents[i].alive \/ j > Len(segments)
    THEN AgentLoop(agent_type, agents, segments, i + 1, 1, log)
    ELSE LET r == bind_strategy(agent_type, segments[j], agents[i])
         IN AgentLoop(agent_type, agents, segments, i, j + 1,
                      Append(log, [agent_type |-> agent_type, agent |-> i,
                                   alive |-> agents[i].alive,
                                   segment |-> segments[j].id,
                                   set_binding |-> r.set_binding]))

\* _agent_bind_port: the calls of the bind strategy, and the value returned
_agent_bind_port(agent_type, agents, segments) ==
    [log |-> AgentLoop(agent_type, agents, segments, 1, 1, <<>>),
     ret |-> "None"]

\* bind_port
bind_port ==
    /\ md.op = "none"
    /\ \E vnic_type \in {VNIC_NORMAL, "direct"},
          device_owner \in {"compute:nova", "network:dhcp"},
          dvs_agents \in SeqsUpTo([alive : BOOLEAN,
                                   opflex_networks : {"None"}], 1),
          agents \in SeqsUpTo(AgentInputs, MaxAgents),
          segments_to_bind \in SeqsUpTo(SegmentInputs, MaxSegments) :
          LET dvs == IF device_owner = "compute:nova"
                     THEN _agent_bind_port(AGENT_TYPE_DVS, dvs_agents,
                                           segments_to_bind)
                     ELSE [log |-> <<>>, ret |-> "None"]
              opflex == _agent_bind_port(AGENT_TYPE_OPFLEX_OVS, agents,
                                         segments_to_bind)
              log == IF vnic_type # VNIC_NORMAL THEN <<>>
                     ELSE IF dvs.ret = "True" THEN dvs.log
                     ELSE dvs.log \o opflex.log
          IN md' = [op |-> "bind_port", vnic_type |-> vnic_type,
                    device_owner |-> device_owner, agents |-> agents,
                    segments |-> segments_to_bind, log |-> log]
    /\ UNCHANGED <<apic_names, strategy, min_suffix, db_filters, ncalls, call,
                   first, remapped>>
    /\ UNCHANGED <<valVars, rmdVars>>

\* dict.get(key)
Get(dict, key) == IF key \in DOMAIN dict THEN dict[key] ELSE "None"

\* The requests an agent sends: with or without a device, a timestamp and a
\* request id.
RequestInputs ==
    {("device" :> "dev1" @@ "timestamp" :> "ts1" @@ "request_id" :> "r1"),
     ("timestamp" :> "ts1" @@ "request_id" :> "r1"),
     ("device" :> "dev1" @@ "request_id" :> "r1"),
     ("device" :> "dev1")}

\* How _get_gbp_details ends: with the details, with only the device when
\* the port is not found, with None when it is bound to another host, or
\* with an exception.
DetailsOutcomes == {"details", "not_found", "not_bound", "raise"}

\* _get_gbp_details_old and _get_gbp_details_new of AIMMappingRPCMixin have
\* no test of the host: they end with the details, with only the device, or
\* with an exception.
MixinOutcomes == {"details", "not_found", "raise"}

\* What a handler gives its caller: a dict, None, or an exception.
Returns(value) == [raised |-> "", kind |-> "dict", value |-> value]
ReturnsNone == [raised |-> "", kind |-> "None", value |-> EmptyMap]
Raises(e) == [raised |-> e, kind |-> "exception", value |-> EmptyMap]

\* _get_gbp_details(context, request)
_get_gbp_details(request, how) ==
    IF how = "raise" THEN Raises("Exception")
    ELSE IF how = "not_bound" THEN ReturnsNone
    ELSE IF how = "not_found"
    THEN Returns("device" :> Get(request, "device"))
    ELSE Returns("device" :> Get(request, "device") @@ "port_id" :> "port1")

\* get_gbp_details of the mechanism driver and of AIMMappingRPCMixin: the
\* exception of _get_gbp_details is logged and the device is returned
GetGbpDetails(kwargs, how) ==
    LET r == _get_gbp_details(kwargs, how)
    IN IF r.raised # ""
       THEN LET device == Get(kwargs, "device")
            IN Returns("device" :> device)
       ELSE r

\* The try block of request_endpoint_details, and _request_endpoint_details:
\* request['device'], request['timestamp'] and request['request_id'] are
\* read before the details are collected
EndpointDetails(kwargs, how, neutron_fails) ==
    IF "request" \notin DOMAIN kwargs THEN Raises("TypeError")
    ELSE IF {"device", "timestamp", "request_id"} \ DOMAIN kwargs["request"]
               # {}
    THEN Raises("KeyError")
    ELSE LET request == kwargs["request"]
             gbp_details == _get_gbp_details(request, how)
         IN IF gbp_details.raised # "" THEN gbp_details
            ELSE IF neutron_fails THEN Raises("Exception")
            ELSE Returns("device" :> request["device"]
                         @@ "timestamp" :> request["timestamp"]
                         @@ "request_id" :> request["request_id"]
                         @@ "gbp_details" :> gbp_details.kind)

\* request_endpoint_details: request = kwargs.get('request'); the except
\* clause logs request.get('device') and returns None
RequestEndpointDetails(kwargs, how, neutron_fails) ==
    LET r == EndpointDetails(kwargs, how, neutron_fails)
    IN IF r.raised # ""
       THEN IF "request" \notin DOMAIN kwargs THEN Raises("AttributeError")
            ELSE ReturnsNone
       ELSE r

\* ApicMechanismDriver.get_gbp_details
get_gbp_details ==
    /\ md.op = "none"
    /\ \E kwargs \in RequestInputs, how \in DetailsOutcomes :
          md' = [op |-> "get_gbp_details", kwargs |-> kwargs, how |-> how,
                 result |-> GetGbpDetails(kwargs, how)]
    /\ UNCHANGED <<apic_names, strategy, min_suffix, db_filters, ncalls, call,
                   first, remapped>>
    /\ UNCHANGED <<valVars, rmdVars>>

\* The kwargs of request_endpoint_details: with a request or without.
EndpointKwargs == {EmptyMap} \cup {("request" :> r) : r \in RequestInputs}

\* ApicMechanismDriver.request_endpoint_details
request_endpoint_details ==
    /\ md.op = "none"
    /\ \E kwargs \in EndpointKwargs, how \in DetailsOutcomes,
          neutron_fails \in BOOLEAN :
          md' = [op |-> "request_endpoint_details", kwargs |-> kwargs,
                 how |-> how, neutron_fails |-> neutron_fails,
                 result |-> RequestEndpointDetails(kwargs, how,
                                                   neutron_fails)]
    /\ UNCHANGED <<apic_names, strategy, min_suffix, db_filters, ncalls, call,
                   first, remapped>>
    /\ UNCHANGED <<valVars, rmdVars>>

\* AIMMappingRPCMixin.get_gbp_details
AIMMappingRPCMixin_get_gbp_details ==
    /\ md.op = "none"
    /\ \E kwargs \in RequestInputs, how \in MixinOutcomes :
          md' = [op |-> "AIMMappingRPCMixin.get_gbp_details",
                 kwargs |-> kwargs, how |-> how,
                 result |-> GetGbpDetails(kwargs, how)]
    /\ UNCHANGED <<apic_names, strategy, min_suffix, db_filters, ncalls, call,
                   first, remapped>>
    /\ UNCHANGED <<valVars, rmdVars>>

\* AIMMappingRPCMixin.request_endpoint_details; neutron_fails stands for the
\* failure of the Neutron or of the trunk details
AIMMappingRPCMixin_request_endpoint_details ==
    /\ md.op = "none"
    /\ \E kwargs \in EndpointKwargs, how \in MixinOutcomes,
          neutron_fails \in BOOLEAN :
          md' = [op |-> "AIMMappingRPCMixin.request_endpoint_details",
                 kwargs |-> kwargs, how |-> how,
                 neutron_fails |-> neutron_fails,
                 result |-> RequestEndpointDetails(kwargs, how,
                                                   neutron_fails)]
    /\ UNCHANGED <<apic_names, strategy, min_suffix, db_filters, ncalls, call,
                   first, remapped>>
    /\ UNCHANGED <<valVars, rmdVars>>

MdNext ==
    \/ extend_network_dict
    \/ MergeStatuses
    \/ bind_port
    \/ get_gbp_details
    \/ request_endpoint_details
    \/ AIMMappingRPCMixin_get_gbp_details
    \/ AIMMappingRPCMixin_request_endpoint_details

-----------------------------------------------------------------------------
(* Network hooks of the mechanism driver: mechanism_driver.py lines          *)
(* 105-201.  The ML2 networks are the table neutron.networks, keyed by the   *)
(* network id; the fabric's bridge domains and endpoint groups are entries   *)
(* of aim_store, keyed by class and by <<tenant name, name>>.  A hook works  *)
(* in the transaction of the plugin: when it raises nothing is written.     *)

TenantA == <<"t", "-", "a">>
TenantB == <<"t", "-", "b">>

TenantIds == {TenantA, TenantB}

BridgeDomain == "BridgeDomain"
EndpointGroup == "EndpointGroup"

MaxDisplayName == 59

\* mechanism_driver.py lines 601-602.
_make_display_name(name) == truncate(name, MaxDisplayName)

\* The mapper that looks nothing up: every call computes the name.
NameMapperComputes(store, name_type, resource_id, resource_name) ==
    LET c == ComputeName(store, strategy, min_suffix, db_filters,
                         name_type, resource_id, resource_name)
    IN [value |-> c.result,
        store |-> Put(store, <<resource_id, name_type>>,
                      [name |-> c.result, human |-> resource_name]),
        kind |-> "computed"]

\* apic_mapper.py lines 92-145 for a call without remap, prefix and
\* existing: the persisted name when there is one, else the computed name,
\* which is persisted.  The value is the name and the store after the call.
name_mapper(store, name_type, resource_id, resource_name) ==
    IF UseSaved(store, FALSE, <<resource_id, name_type>>)
    THEN [value |-> store[<<resource_id, name_type>>].name, store |-> store,
          kind |-> "saved"]
    ELSE LET c == ComputeName(store, strategy, min_suffix, db_filters,
                              name_type, resource_id, resource_name)
         IN [value |-> c.result,
             store |-> Put(store, <<resource_id, name_type>>,
                           [name |-> c.result, human |-> resource_name]),
             kind |-> "computed"]

BdKey(tenant_aname, aname) == <<BridgeDomain, <<tenant_aname, aname>>>>

EpgKey(tenant_aname, aname) == <<EndpointGroup, <<tenant_aname, aname>>>>

NetUnchanged ==
    UNCHANGED <<desired, map_broken, unrepairable, ndrift, v_pc, repair,
                result, session, pending, expected, classes_left, cur,
                actual_resources, missing_done, ops, run_info, last,
                strategy, min_suffix, db_filters, ncalls, call, first,
                remapped, owned, gbp, next_id, ctx, outcome, scope, chains,
                procs>>

\* Lines 105-143.  The tenant is mapped without a name, the network with its
\* name; the bridge domain and the endpoint group are created under the
\* mapped names.  A bridge domain or endpoint group of that identity makes
\* the create of the fabric store raise.
create_network_precommit(id, name, tenant_id) ==
    /\ id \notin DOMAIN neutron.networks
    /\ LET t == name_mapper(apic_names, NAME_TYPE_TENANT, tenant_id, NoName)
           n == name_mapper(t.store, NAME_TYPE_NETWORK, id, name)
           dname == _make_display_name(name)
           bd == BdKey(t.value, n.value)
           epg == EpgKey(t.value, n.value)
       IN IF bd \in DOMAIN aim_store \/ epg \in DOMAIN aim_store
          THEN /\ md' = [op |-> "create_network_precommit", id |-> id,
                         raised |-> TRUE, tenant_aname |-> t.value,
                         aname |-> n.value, kind |-> n.kind]
               /\ UNCHANGED <<apic_names, aim_store, neutron>>
          ELSE /\ apic_names' = n.store
               /\ aim_store' =
                      Put(Put(aim_store, bd, [display_name |-> dname]),
                          epg, [display_name |-> dname, bd_name |-> n.value])
               /\ neutron' = [neutron EXCEPT !.networks =
                      Put(@, id, [name |-> name, tenant_id |-> tenant_id,
                                  tenant_aname |-> t.value,
                                  aname |-> n.value])]
               /\ md' = [op |-> "create_network_precommit", id |-> id,
                         raised |-> FALSE, tenant_aname |-> t.value,
                         aname |-> n.value, kind |-> n.kind]
    /\ NetUnchanged

\* Lines 145-173.  Only a change of the name is acted on: the display names
\* of the bridge domain and of the endpoint group follow it.
update_network_precommit(id, name) ==
    /\ id \in DOMAIN neutron.networks
    /\ LET original == neutron.networks[id]
           t == name_mapper(apic_names, NAME_TYPE_TENANT,
                            original.tenant_id, NoName)
           n == name_mapper(t.store, NAME_TYPE_NETWORK, id, NoName)
           dname == _make_display_name(name)
           bd == BdKey(t.value, n.value)
           epg == EpgKey(t.value, n.value)
       IN /\ neutron' = [neutron EXCEPT !.networks[id].name = name]
          /\ IF name # original.name
             THEN /\ apic_names' = n.store
                  /\ aim_store' =
                         [k \in DOMAIN aim_store |->
                             IF k \in {bd, epg}
                             THEN [aim_store[k] EXCEPT !.display_name = dname]
                             ELSE aim_store[k]]
                  /\ md' = [op |-> "update_network_precommit", id |-> id,
                            raised |-> FALSE, tenant_aname |-> t.value,
                            aname |-> n.value, kind |-> n.kind]
             ELSE /\ md' = [op |-> "update_network_precommit", id |-> id,
                            raised |-> FALSE,
                            tenant_aname |-> original.tenant_aname,
                            aname |-> original.aname, kind |-> "none"]
                  /\ UNCHANGED <<apic_names, aim_store>>
    /\ NetUnchanged

\* Lines 175-201.  The names are looked up, the endpoint group and the
\* bridge domain of these names are deleted, and the name records of the
\* network id are removed.  md keeps the names the network was created under.
delete_network_precommit(id) ==
    /\ id \in DOMAIN neutron.networks
    /\ LET current == neutron.networks[id]
           t == name_mapper(apic_names, NAME_TYPE_TENANT,
                            current.tenant_id, NoName)
           n == name_mapper(t.store, NAME_TYPE_NETWORK, id, NoName)
       IN /\ aim_store' = Remove(Remove(aim_store, EpgKey(t.value, n.value)),
                                 BdKey(t.value, n.value))
          /\ apic_names' = db_delete_apic_name(n.store, id)
          /\ neutron' = [neutron EXCEPT !.networks = Remove(@, id)]
          /\ md' = [op |-> "delete_network_precommit", id |-> id,
                    raised |-> FALSE, tenant_aname |-> current.tenant_aname,
                    aname |-> current.aname, kind |-> n.kind]
    /\ NetUnchanged

NetNext ==
    \/ \E id \in Ids, name \in ResourceNames, tenant_id \in TenantIds :
           create_network_precommit(id, name, tenant_id)
    \/ \E id \in Ids, name \in ResourceNames :
           update_network_precommit(id, name)
    \/ \E id \in Ids : delete_network_precommit(id)

-----------------------------------------------------------------------------
(* Resource mapping driver: resource_mapping.py.  The Neutron plugins are   *)
(* the tables of the record neutron, the ownership tables those of owned,   *)
(* the group policy plugin's tables those of gbp.  Ids are strings, "" is   *)
(* an id that is not given.  The hooks work on a record w of the three,     *)
(* with the id counter, the exception raised so far and the last id made.   *)

Tenants == {"t1", "t2"}

NetX == "net_x"
NetY == "net_y"
SubX == "sub_x"
SubY == "sub_y"
PortX == "port_x"
RtrX == "rtr_x"

L3PIds == {"l3p1"}
L2PIds == {"l2p1", "l2p2"}
PTGIds == {"ptg1"}
PTIds == {"pt1"}

\* The ids and tenants the callers of the plugin use in a run.
\* A policy target group that provides and consumes no policy rule set.
NoRuleSets == [provided |-> {}, consumed |-> {}]

RmdScope ==
    [l3p |-> L3PIds, l2p |-> L2PIds, ptg |-> PTGIds, pt |-> PTIds,
     tenants |-> Tenants, ptg_inputs |-> [p \in PTGIds |-> {NoRuleSets}],
     rules |-> {}, rule_inputs |-> {}, rule_sets |-> {}, classifiers |-> {},
     es_inputs |-> {{}}]

Range(s) == {s[i] : i \in DOMAIN s}

\* The Neutron tables that have an Owned* table.
ResourceTables == {"ports", "subnets", "networks", "routers"}

ResourceIds(n) == UNION {DOMAIN n[t] : t \in ResourceTables}

NewId(k) == "new" \o ToString(k)

World == [n |-> neutron, o |-> owned, g |-> gbp, next |-> next_id,
          sc |-> chains, exc |-> "", ret |-> "", tried |-> <<>>]

Raise(w, e) == [w EXCEPT !.exc = e]

SubnetsOf(n, network_id) ==
    {s \in DOMAIN n.subnets : n.subnets[s].network_id = network_id}

\* core plugin: create_network, create_subnet, create_port; a subnet whose
\* CIDR overlaps one of the same network is a bad request
create_network(w, attrs) ==
    LET id == NewId(w.next)
    IN [w EXCEPT !.n.networks = Put(@, id, attrs), !.next = @ + 1,
                 !.ret = id]

create_subnet(w, attrs) ==
    IF attrs.network_id \notin DOMAIN w.n.networks
    THEN Raise(w, "NetworkNotFound")
    ELSE IF \E s \in SubnetsOf(w.n, attrs.network_id) :
               w.n.subnets[s].cidr = attrs.cidr
    THEN Raise(w, "BadRequest")
    ELSE LET id == NewId(w.next)
         IN [w EXCEPT !.n.subnets = Put(@, id, attrs), !.next = @ + 1,
                      !.ret = id]

create_port(w, attrs) ==
    IF attrs.network_id \notin DOMAIN w.n.networks
    THEN Raise(w, "NetworkNotFound")
    ELSE LET id == NewId(w.next)
         IN [w EXCEPT !.n.ports = Put(@, id, attrs), !.next = @ + 1,
                      !.ret = id]

\* l3 plugin: create_router, add_router_interface, remove_router_interface;
\* a router takes no two interfaces with overlapping CIDRs
\* A router of the L3 plugin as create_router makes it: no route and no
\* external gateway ("" is None).
NewRouter(tenant_id) ==
    [tenant_id |-> tenant_id, routes |-> {}, external_gateway_info |-> ""]

create_router(w, attrs) ==
    LET id == NewId(w.next)
    IN [w EXCEPT !.n.routers = Put(@, id, NewRouter(attrs.tenant_id)),
                 !.next = @ + 1, !.ret = id]

AttachAnyInterface(w, router_id, subnet_id) ==
    [w EXCEPT !.n.router_interfaces = @ \cup {<<router_id, subnet_id>>}]

add_router_interface(w, router_id, subnet_id) ==
    IF router_id \notin DOMAIN w.n.routers
    THEN Raise(w, "RouterNotFound")
    ELSE IF subnet_id \notin DOMAIN w.n.subnets
    THEN Raise(w, "SubnetNotFound")
    ELSE IF \E i \in w.n.router_interfaces :
               /\ i[1] = router_id
               /\ w.n.subnets[i[2]].cidr = w.n.subnets[subnet_id].cidr
    THEN Raise(w, "BadRequest")
    ELSE [w EXCEPT !.n.router_interfaces = @ \cup {<<router_id, subnet_id>>}]

remove_router_interface(w, router_id, subnet_id) ==
    IF <<router_id, subnet_id>> \notin w.n.router_interfaces
    THEN Raise(w, "RouterInterfaceNotFoundForSubnet")
    ELSE [w EXCEPT !.n.router_interfaces = @ \ {<<router_id, subnet_id>>}]

\* delete_port, delete_subnet, delete_network, delete_router, each after the
\* get of _delete_resource; a resource in use is not deleted, and the rows of
\* the Owned* tables go with their resource (ondelete CASCADE)
delete_port(w, port_id) ==
    IF port_id \notin DOMAIN w.n.ports
    THEN Raise(w, "PortNotFound")
    ELSE [w EXCEPT !.n.ports = Remove(@, port_id),
                   !.o.ports = @ \ {port_id}]

delete_subnet(w, subnet_id) ==
    IF subnet_id \notin DOMAIN w.n.subnets
    THEN Raise(w, "SubnetNotFound")
    ELSE IF \/ \E p \in DOMAIN w.n.ports : w.n.ports[p].subnet_id = subnet_id
            \/ \E i \in w.n.router_interfaces : i[2] = subnet_id
    THEN Raise(w, "SubnetInUse")
    ELSE [w EXCEPT !.n.subnets = Remove(@, subnet_id),
                   !.o.subnets = @ \ {subnet_id}]

delete_network(w, network_id) ==
    IF network_id \notin DOMAIN w.n.networks
    THEN Raise(w, "NetworkNotFound")
    ELSE IF \/ \E p \in DOMAIN w.n.ports :
                  w.n.ports[p].network_id = network_id
            \/ \E i \in w.n.router_interfaces :
                  i[2] \in SubnetsOf(w.n, network_id)
    THEN Raise(w, "NetworkInUse")
    ELSE LET gone == SubnetsOf(w.n, network_id)
         IN [w EXCEPT !.n.networks = Remove(@, network_id),
                      !.n.subnets = [s \in DOMAIN @ \ gone |-> @[s]],
                      !.o.networks = @ \ {network_id},
                      !.o.subnets = @ \ gone]

delete_router(w, router_id) ==
    IF router_id \notin DOMAIN w.n.routers
    THEN Raise(w, "RouterNotFound")
    ELSE IF \E i \in w.n.router_interfaces : i[1] = router_id
    THEN Raise(w, "RouterInUse")
    ELSE [w EXCEPT !.n.routers = Remove(@, router_id),
                   !.o.routers = @ \ {router_id}]

\* _mark_*_owned and _*_is_owned
_mark_port_owned(w, port_id) == [w EXCEPT !.o.ports = @ \cup {port_id}]

PortAlwaysOwned(w, port_id) == TRUE

_port_is_owned(w, port_id) == port_id \in w.o.ports

_mark_subnet_owned(w, subnet_id) ==
    [w EXCEPT !.o.subnets = @ \cup {subnet_id}]

_subnet_is_owned(w, subnet_id) == subnet_id \in w.o.subnets

MarkNoNetworkOwned(w, network_id) == w

_mark_network_owned(w, network_id) ==
    [w EXCEPT !.o.networks = @ \cup {network_id}]

_network_is_owned(w, network_id) == network_id \in w.o.networks

_mark_router_owned(w, router_id) ==
    [w EXCEPT !.o.routers = @ \cup {router_id}]

_router_is_owned(w, router_id) == router_id \in w.o.routers

\* _reject_cross_tenant_ptg_l2p, _reject_cross_tenant_l2p_l3p,
\* _reject_non_shared_net_on_shared_l2p, _reject_invalid_network_access,
\* _reject_invalid_router_access: the exception raised, "" when none
_reject_cross_tenant_ptg_l2p(w, current) ==
    IF /\ current.l2_policy_id # ""
       /\ w.g.l2_policies[current.l2_policy_id].tenant_id # current.tenant_id
    THEN "CrossTenantPolicyTargetGroupL2PolicyNotSupported" ELSE ""

_reject_cross_tenant_l2p_l3p(w, current) ==
    IF /\ current.l3_policy_id # ""
       /\ w.g.l3_policies[current.l3_policy_id].tenant_id # current.tenant_id
    THEN "CrossTenantL2PolicyL3PolicyNotSupported" ELSE ""

_reject_non_shared_net_on_shared_l2p(w, current) ==
    IF current.shared /\ current.network_id # ""
    THEN IF current.network_id \notin DOMAIN w.n.networks
         THEN "NetworkNotFound"
         ELSE IF ~w.n.networks[current.network_id].shared
              THEN "NonSharedNetworkOnSharedL2PolicyNotSupported" ELSE ""
    ELSE ""

AcceptAnyNetwork(w, current) == ""

_reject_invalid_network_access(w, current) ==
    IF current.network_id # ""
    THEN IF current.network_id \notin DOMAIN w.n.networks
         THEN "InvalidNetworkAccess"
         ELSE IF w.n.networks[current.network_id].tenant_id
                     # current.tenant_id
              THEN "InvalidNetworkAccess" ELSE ""
    ELSE ""

_reject_invalid_router_access(w, current) ==
    IF \E i \in DOMAIN current.routers :
          IF current.routers[i] \in DOMAIN w.n.routers
          THEN w.n.routers[current.routers[i]].tenant_id # current.tenant_id
          ELSE TRUE
    THEN "InvalidRouterAccess" ELSE ""

\* The first exception of a precommit hook's checks.
FirstRaised(checks) ==
    IF \A i \in DOMAIN checks : checks[i] = "" THEN ""
    ELSE checks[CHOOSE i \in DOMAIN checks :
                    /\ checks[i] # ""
                    /\ \A j \in 1..(i - 1) : checks[j] = ""]

\* _validate_ptg_subnets
_validate_ptg_subnets(w, current) ==
    IF Len(current.subnets) > 0
    THEN LET network_id == w.g.l2_policies[current.l2_policy_id].network_id
         IN IF network_id \notin DOMAIN w.n.networks
            THEN "NetworkNotFound"
            ELSE IF \E i \in DOMAIN current.subnets :
                       current.subnets[i] \notin SubnetsOf(w.n, network_id)
                 THEN "InvalidSubnetForPTG" ELSE ""
    ELSE ""

\* _validate_pt_port_subnets
_validate_pt_port_subnets(w, current) ==
    IF current.port_id \notin DOMAIN w.n.ports
    THEN "PortNotFound"
    ELSE LET port_subnet_id == w.n.ports[current.port_id].subnet_id
             ptg == w.g.policy_target_groups[current.policy_target_group_id]
         IN IF Len(ptg.subnets) = 0
            THEN "TypeError"
            ELSE IF port_subnet_id \in Range(ptg.subnets)
                 THEN "" ELSE "InvalidPortForPTG"

\* _get_routerid_for_l2policy
_get_routerid_for_l2policy(w, l2p_id) ==
    LET l3p == w.g.l3_policies[w.g.l2_policies[l2p_id].l3_policy_id]
    IN IF Len(l3p.routers) > 0 THEN l3p.routers[1] ELSE ""

\* _use_implicit_port; ip_subnet is the subnet Neutron takes the address from
_use_implicit_port(w, pt_id, ip_subnet) ==
    LET ptg_id == w.g.policy_targets[pt_id].policy_target_group_id
        l2p == w.g.l2_policies[w.g.policy_target_groups[ptg_id].l2_policy_id]
        w1 == create_port(w, [network_id |-> l2p.network_id,
                              subnet_id |-> ip_subnet])
    IN IF w1.exc # "" THEN w1
       ELSE [_mark_port_owned(w1, w1.ret)
                EXCEPT !.g.policy_targets[pt_id].port_id = w1.ret]

\* _cleanup_port
_cleanup_port(w, port_id) ==
    IF _port_is_owned(w, port_id)
    THEN LET w1 == delete_port(w, port_id)
         IN IF w1.exc = "PortNotFound" THEN w ELSE w1
    ELSE w

\* The subnets of the policy target groups under an L3 policy that Neutron
\* has, as _use_implicit_subnet collects them before it scans the pool.
SubnetsInUse(w, l3p_id) ==
    LET l2ps == {x \in DOMAIN w.g.l2_policies :
                    w.g.l2_policies[x].l3_policy_id = l3p_id}
        ptgs == {x \in DOMAIN w.g.policy_target_groups :
                    w.g.policy_target_groups[x].l2_policy_id \in l2ps}
    IN (UNION {Range(w.g.policy_target_groups[x].subnets) : x \in ptgs})
           \cap DOMAIN w.n.subnets

\* _validate_subnet_overlap_for_l3p; the subnets of a pool have one prefix
\* length, so two of them overlap when they are equal
NothingOverlaps(n, subnets_, subnet_cidr) == TRUE

_validate_subnet_overlap_for_l3p(n, subnets_, subnet_cidr) ==
    \A s \in subnets_ : n.subnets[s].cidr # subnet_cidr

\* The scan of _use_implicit_subnet over pool.subnet(subnet_prefix_length),
\* lines 933-972, from the candidate cidr on.  tried lists the candidates
\* _create_subnet was called with.
RECURSIVE ScanPool(_, _, _, _)
ScanNothing(w, ptg_id, subnets_, cidr) == Raise(w, "NoSubnetAvailable")

ScanPool(w, ptg_id, subnets_, cidr) ==
    IF cidr > PoolSize
    THEN Raise(w, "NoSubnetAvailable")
    ELSE IF ~_validate_subnet_overlap_for_l3p(w.n, subnets_, cidr)
    THEN ScanPool(w, ptg_id, subnets_, cidr + 1)
    ELSE LET l2p == w.g.l2_policies[
                        w.g.policy_target_groups[ptg_id].l2_policy_id]
             l3p == w.g.l3_policies[l2p.l3_policy_id]
             w0 == [w EXCEPT !.tried = Append(@, cidr)]
             w1 == create_subnet(w0, [network_id |-> l2p.network_id,
                                      cidr |-> cidr])
             w2 == IF Len(l3p.routers) > 0
                   THEN add_router_interface(w1, l3p.routers[1], w1.ret)
                   ELSE w1
         IN IF w1.exc = "BadRequest"
            THEN ScanPool(w0, ptg_id, subnets_, cidr + 1)
            ELSE IF w1.exc # "" THEN w1
            ELSE IF w2.exc = "BadRequest"
            THEN ScanPool(w1, ptg_id, subnets_, cidr + 1)
            ELSE IF w2.exc # "" THEN w2
            ELSE [_mark_subnet_owned(w2, w1.ret)
                     EXCEPT !.g.policy_target_groups[ptg_id].subnets =
                                Append(@, w1.ret)]

\* _use_implicit_subnet
UseFirstSubnet(w, ptg_id) ==
    LET l2p == w.g.l2_policies[w.g.policy_target_groups[ptg_id].l2_policy_id]
        w1 == create_subnet(w, [network_id |-> l2p.network_id, cidr |-> 1])
    IN IF w1.exc # "" THEN w1
       ELSE [_mark_subnet_owned(w1, w1.ret)
                EXCEPT !.g.policy_target_groups[ptg_id].subnets =
                           Append(@, w1.ret)]

_use_implicit_subnet(w, ptg_id) ==
    LET l2p == w.g.l2_policies[w.g.policy_target_groups[ptg_id].l2_policy_id]
    IN ScanPool(w, ptg_id, SubnetsInUse(w, l2p.l3_policy_id), 1)

\* _use_explicit_subnet
_use_explicit_subnet(w, subnet_id, router_id) ==
    IF router_id # "" THEN add_router_interface(w, router_id, subnet_id)
    ELSE w

\* _cleanup_subnet
_cleanup_subnet(w, subnet_id, router_id) ==
    LET w1 == IF router_id # ""
              THEN remove_router_interface(w, router_id, subnet_id)
              ELSE w
    IN IF w1.exc # "" THEN w1
       ELSE IF _subnet_is_owned(w1, subnet_id)
            THEN delete_subnet(w1, subnet_id) ELSE w1

\* _create_implicit_network
_create_implicit_network(w, current) ==
    LET w1 == create_network(w, [tenant_id |-> current.tenant_id,
                                 shared |-> current.shared])
    IN _mark_network_owned(w1, w1.ret)

\* _use_implicit_network
_use_implicit_network(w, l2p_id) ==
    LET w1 == _create_implicit_network(w, w.g.l2_policies[l2p_id])
    IN [w1 EXCEPT !.g.l2_policies[l2p_id].network_id = w1.ret]

\* _cleanup_network
_cleanup_network(w, network_id) ==
    IF _network_is_owned(w, network_id)
    THEN delete_network(w, network_id) ELSE w

\* _use_implicit_router
_use_implicit_router(w, l3p_id) ==
    LET w1 == create_router(w, [tenant_id |->
                                    w.g.l3_policies[l3p_id].tenant_id])
    IN [_mark_router_owned(w1, w1.ret)
           EXCEPT !.g.l3_policies[l3p_id].routers = Append(@, w1.ret)]

\* _cleanup_router
_cleanup_router(w, router_id) ==
    IF _router_is_owned(w, router_id)
    THEN delete_router(w, router_id) ELSE w

\* The loops of the postcommit hooks over a list of ids; an exception ends
\* the loop.
RECURSIVE UseExplicitSubnets(_, _, _)
UseExplicitSubnets(w, subnets_, router_id) ==
    IF w.exc # "" \/ Len(subnets_) = 0 THEN w
    ELSE UseExplicitSubnets(_use_explicit_subnet(w, Head(subnets_), router_id),
                            Tail(subnets_), router_id)

RECURSIVE CleanupSubnets(_, _, _)
CleanupSubnets(w, subnets_, router_id) ==
    IF w.exc # "" \/ Len(subnets_) = 0 THEN w
    ELSE CleanupSubnets(_cleanup_subnet(w, Head(subnets_), router_id),
                        Tail(subnets_), router_id)

RECURSIVE CleanupRouters(_, _)
CleanupRouters(w, routers_) ==
    IF w.exc # "" \/ Len(routers_) = 0 THEN w
    ELSE CleanupRouters(_cleanup_router(w, Head(routers_)), Tail(routers_))

\* The external segments of the table among the given ids:
\* get_external_segments(filters={'id': es_ids})
ExternalSegmentsOf(g, es_ids) == es_ids \cap DOMAIN g.external_segments

\* external_segment['l3_policies']
L3PoliciesOf(g, es_id) ==
    {l \in DOMAIN g.l3_policies : es_id \in g.l3_policies[l].external_segments}

\* L3 plugin: update_router with routes, with external_gateway_info
update_router_routes(w, router_id, routes) ==
    IF router_id \notin DOMAIN w.n.routers THEN Raise(w, "RouterNotFound")
    ELSE [w EXCEPT !.n.routers[router_id].routes = routes]

update_router_gateway(w, router_id, network_id) ==
    IF router_id \notin DOMAIN w.n.routers THEN Raise(w, "RouterNotFound")
    ELSE [w EXCEPT !.n.routers[router_id].external_gateway_info = network_id]

\* The loop of _plug_router_to_external_segment (unplug = FALSE) and of
\* _unplug_router_from_external_segment (unplug = TRUE) over the segments.
RECURSIVE PlugSegments(_, _, _, _)
PlugSegments(w, router_id, es_list, unplug) ==
    IF w.exc # "" \/ es_list = {} THEN w
    ELSE LET es == CHOOSE x \in es_list : TRUE
             subnet_id == w.g.external_segments[es].subnet_id
         IN PlugSegments(
                IF subnet_id \notin DOMAIN w.n.subnets
                THEN Raise(w, "SubnetNotFound")
                ELSE update_router_gateway(w, router_id,
                         IF unplug THEN ""
                         ELSE w.n.subnets[subnet_id].network_id),
                router_id, es_list \ {es}, unplug)

\* _plug_router_to_external_segment, as far as the router's gateway goes
_plug_router_to_external_segment(w, l3p_id, es_ids) ==
    LET routers_ == w.g.l3_policies[l3p_id].routers
    IN IF Len(routers_) = 0 THEN w
       ELSE PlugSegments(w, routers_[1], ExternalSegmentsOf(w.g, es_ids),
                         FALSE)

\* _unplug_router_from_external_segment
_unplug_router_from_external_segment(w, l3p_id, es_ids) ==
    LET routers_ == w.g.l3_policies[l3p_id].routers
    IN IF Len(routers_) = 0 THEN w
       ELSE PlugSegments(w, routers_[1], ExternalSegmentsOf(w.g, es_ids), TRUE)

\* A route is <<destination, nexthop>>; the routes with a nexthop.
WithNexthop(routes) == {x \in routes : x[2] # ""}

\* The routes of the segments go to the router as they are.
SetAllL3pRoutes(w, l3p_id) ==
    LET l3p == w.g.l3_policies[l3p_id]
        es_list == ExternalSegmentsOf(w.g, l3p.external_segments)
        routes == UNION {w.g.external_segments[es].external_routes :
                            es \in es_list}
    IN update_router_routes(w, l3p.routers[1], routes)

\* _set_l3p_routes, es_ids not given
_set_l3p_routes(w, l3p_id) ==
    LET l3p == w.g.l3_policies[l3p_id]
        es_list == ExternalSegmentsOf(w.g, l3p.external_segments)
        routes == UNION {w.g.external_segments[es].external_routes :
                            es \in es_list}
    IN update_router_routes(w, l3p.routers[1], WithNexthop(routes))

\* The loop of _recompute_l3_policy_routes over the routers of the L3
\* policies of the external segment.
RECURSIVE RecomputeRoutes(_, _, _, _)
RecomputeRoutes(w, routers_, added_routes, removed_routes) ==
    IF w.exc # "" \/ routers_ = {} THEN w
    ELSE LET router == CHOOSE x \in routers_ : TRUE
             current_routes == (w.n.routers[router].routes \ removed_routes)
                                  \cup added_routes
         IN RecomputeRoutes(
                update_router_routes(w, router, WithNexthop(current_routes)),
                routers_ \ {router}, added_routes, removed_routes)

\* _recompute_l3_policy_routes
_recompute_l3_policy_routes(w, es_id, new_routes, old_routes) ==
    RecomputeRoutes(w,
        UNION {Range(w.g.l3_policies[l].routers) \cap DOMAIN w.n.routers :
                  l \in L3PoliciesOf(w.g, es_id)},
        new_routes \ old_routes, old_routes \ new_routes)

-----------------------------------------------------------------------------
(* Resource mapping driver: policy rules, policy rule sets and the service  *)
(* chain instances of redirect actions.  The policy actions, rules and rule *)
(* sets are tables of gbp; a rule set's providing and consuming groups are  *)
(* the groups that name it.  The service chain plugin is the table          *)
(* chains.instances, PtgServiceChainInstanceMapping the set chains.mapping. *)

GP_ACTION_ALLOW == "allow"
GP_ACTION_REDIRECT == "redirect"

\* The order in which the plugin's queries return rows.
IdOrder ==
    <<"ptg1", "ptg2", "ep1", "prs1", "prs2", "rule1", "rule2", "rule3">>

Rank(x) == CHOOSE i \in DOMAIN IdOrder : IdOrder[i] = x

RECURSIVE Ordered(_)
Ordered(S) ==
    IF S = {} THEN <<>>
    ELSE LET x == CHOOSE y \in S : \A z \in S : Rank(y) <= Rank(z)
         IN <<x>> \o Ordered(S \ {x})

\* get_policy_actions(filters={'id': ids, 'action_type': [REDIRECT]})
RedirectActions(g, ids) ==
    {a \in ids \cap DOMAIN g.policy_actions :
        g.policy_actions[a].action_type = GP_ACTION_REDIRECT}

\* get_policy_rules(filters={'id': ids})
RulesOf(g, ids) == ids \cap DOMAIN g.policy_rules

\* _reject_multiple_redirects_in_rule
RejectThreeRedirectsInRule(w, current) ==
    IF Cardinality(RedirectActions(w.g, current.policy_actions)) > 2
    THEN "MultipleRedirectActionsNotSupportedForRule" ELSE ""

_reject_multiple_redirects_in_rule(w, current) ==
    IF Cardinality(RedirectActions(w.g, current.policy_actions)) > 1
    THEN "MultipleRedirectActionsNotSupportedForRule" ELSE ""

\* _reject_multiple_redirects_in_prs: redirect_actions_list has an entry for
\* each redirect action of each rule of the rule set
RejectDistinctRedirectsInPrs(w, current) ==
    LET redirect_actions ==
            UNION {RedirectActions(w.g, w.g.policy_rules[r].policy_actions) :
                      r \in RulesOf(w.g, current.policy_rules)}
    IN IF Cardinality(redirect_actions) > 1
       THEN "MultipleRedirectActionsNotSupportedForPRS" ELSE ""

_reject_multiple_redirects_in_prs(w, current) ==
    LET redirect_actions_list ==
            {x \in RulesOf(w.g, current.policy_rules)
                      \X DOMAIN w.g.policy_actions :
                x[2] \in RedirectActions(w.g,
                             w.g.policy_rules[x[1]].policy_actions)}
    IN IF Cardinality(redirect_actions_list) > 1
       THEN "MultipleRedirectActionsNotSupportedForPRS" ELSE ""

\* policy_rule_set['providing_policy_target_groups'], and
\* ['consuming_policy_target_groups'] + ['consuming_external_policies']
ProvidingGroups(g, prs_id) ==
    {p \in DOMAIN g.policy_target_groups :
        prs_id \in g.policy_target_groups[p].provided_policy_rule_sets}

ConsumingGroups(g, prs_id) ==
    {p \in DOMAIN g.policy_target_groups :
        prs_id \in g.policy_target_groups[p].consumed_policy_rule_sets}
    \cup {p \in DOMAIN g.external_policies :
              prs_id \in g.external_policies[p].consumed_policy_rule_sets}

\* policy_rule['policy_rule_sets']
RuleSetsOf(g, rule_id) ==
    {s \in DOMAIN g.policy_rule_sets :
        rule_id \in g.policy_rule_sets[s].policy_rules}

\* _get_ptg_servicechain_mapping; "" is None
_get_ptg_servicechain_mapping(sc, provider_ptg_id, consumer_ptg_id) ==
    {m \in sc.mapping :
        /\ provider_ptg_id # "" => m.provider_ptg_id = provider_ptg_id
        /\ consumer_ptg_id # "" => m.consumer_ptg_id = consumer_ptg_id}

\* _delete_servicechain_instance; the mapping row goes with the instance
_delete_servicechain_instance(w, servicechain_instance_id) ==
    IF servicechain_instance_id \notin DOMAIN w.sc.instances
    THEN Raise(w, "ServiceChainInstanceNotFound")
    ELSE [w EXCEPT !.sc.instances = Remove(@, servicechain_instance_id),
                   !.sc.mapping = {m \in @ : m.servicechain_instance_id
                                                # servicechain_instance_id}]

ChainId(k) == "sci" \o ToString(k)

\* _create_servicechain_instance; the service chain plugin makes the id
_create_servicechain_instance(w, provider_ptg_id, consumer_ptg_id) ==
    LET free == {k \in 1..MaxChains : ChainId(k) \notin DOMAIN w.sc.instances}
        id == ChainId(CHOOSE k \in free : \A j \in free : k <= j)
    IN IF free = {} THEN Raise(w, "OutOfServiceChainInstances")
       ELSE [w EXCEPT !.sc.instances =
                          Put(@, id, [provider_ptg_id |-> provider_ptg_id,
                                      consumer_ptg_id |-> consumer_ptg_id]),
                      !.ret = id]

\* _set_ptg_servicechain_instance_mapping
_set_ptg_servicechain_instance_mapping(w, provider, consumer, instance) ==
    [w EXCEPT !.sc.mapping = @ \cup
        {[provider_ptg_id |-> provider, consumer_ptg_id |-> consumer,
          servicechain_instance_id |-> instance]}]

RECURSIVE DeleteChains(_, _)
DeleteChains(w, rows) ==
    IF w.exc # "" \/ rows = {} THEN w
    ELSE LET m == CHOOSE x \in rows : TRUE
         IN DeleteChains(
                _delete_servicechain_instance(w, m.servicechain_instance_id),
                rows \ {m})

\* The lists a query for the rows S can return.
Perms(S) ==
    {s \in [1..Cardinality(S) -> S] : \A x \in S : \E i \in DOMAIN s : s[i] = x}

\* provider_ptg_chain_map + consumer_ptg_chain_map of the precommit hooks of
\* a policy target group
ChainMaps(sc, ptg_id) ==
    {p \o c : p \in Perms(_get_ptg_servicechain_mapping(sc, ptg_id, "")),
              c \in Perms(_get_ptg_servicechain_mapping(sc, "", ptg_id))}

\* _cleanup_redirect_action
RECURSIVE _cleanup_redirect_action(_, _)
_cleanup_redirect_action(w, ptg_chain_map) ==
    IF w.exc # "" \/ Len(ptg_chain_map) = 0 THEN w
    ELSE _cleanup_redirect_action(
             _delete_servicechain_instance(
                 w, Head(ptg_chain_map).servicechain_instance_id),
             Tail(ptg_chain_map))

\* The innermost block of _handle_redirect_action, lines 1137-1155: the
\* instances mapped to the pair go, a new one is made and mapped.
ReplaceChain(w, provider, consumer) ==
    LET w1 == DeleteChains(w, _get_ptg_servicechain_mapping(w.sc, provider,
                                                            consumer))
        w2 == _create_servicechain_instance(w1, provider, consumer)
    IN IF w1.exc # "" THEN w1
       ELSE IF w2.exc # "" THEN w2
       ELSE _set_ptg_servicechain_instance_mapping(w2, provider, consumer,
                                                   w2.ret)

\* for ptg_consuming_prs in ...: for ptg_providing_prs in ...: as a list
ChainPairs(consumers, providers) ==
    LET cs == Ordered(consumers)
        ps == Ordered(providers)
    IN [i \in 1..(Len(cs) * Len(ps)) |->
           [consumer |-> cs[((i - 1) \div Len(ps)) + 1],
            provider |-> ps[((i - 1) % Len(ps)) + 1]]]

RECURSIVE ReplaceChains(_, _)
ReplaceChains(w, pairs) ==
    IF w.exc # "" \/ Len(pairs) = 0 THEN w
    ELSE ReplaceChains(ReplaceChain(w, Head(pairs).provider,
                                    Head(pairs).consumer), Tail(pairs))

RECURSIVE Times(_, _, _)
Times(k, w, pairs) ==
    IF k = 0 THEN w ELSE Times(k - 1, ReplaceChains(w, pairs), pairs)

\* The classifier of the parent's first rule with a redirect action, lines
\* 1104-1119; "" is None.
ParentClassifier(g, prs) ==
    IF prs.parent_id = "" THEN ""
    ELSE LET rules == {r \in RulesOf(g, g.policy_rule_sets[prs.parent_id]
                                           .policy_rules) :
                          RedirectActions(g, g.policy_rules[r].policy_actions)
                             # {}}
         IN IF rules = {} THEN ""
            ELSE g.policy_rules[Ordered(rules)[1]].policy_classifier_id

\* The redirect actions of the rules of a rule set that the loop of lines
\* 1120-1134 reaches.
RedirectsOf(g, prs) ==
    LET parent_classifier_id == ParentClassifier(g, prs)
    IN {x \in RulesOf(g, prs.policy_rules) \X DOMAIN g.policy_actions :
           /\ parent_classifier_id # "" =>
                 g.policy_rules[x[1]].policy_classifier_id
                    = parent_classifier_id
           /\ x[2] \in RedirectActions(g, g.policy_rules[x[1]].policy_actions)}

\* The body of the loop of _handle_redirect_action for one rule set.
HandleRuleSet(w, prs_id) ==
    LET prs == w.g.policy_rule_sets[prs_id]
        consumers == ConsumingGroups(w.g, prs_id)
        providers == ProvidingGroups(w.g, prs_id)
    IN IF consumers = {} \/ providers = {} THEN w
       ELSE Times(Cardinality(RedirectsOf(w.g, prs)), w,
                  ChainPairs(consumers, providers))

RECURSIVE HandleRuleSets(_, _)
HandleRuleSets(w, ids) ==
    IF w.exc # "" \/ Len(ids) = 0 THEN w
    ELSE HandleRuleSets(HandleRuleSet(w, Head(ids)), Tail(ids))

\* _handle_redirect_action
_handle_redirect_action(w, policy_rule_set_ids) ==
    HandleRuleSets(w, Ordered(policy_rule_set_ids
                                 \cap DOMAIN w.g.policy_rule_sets))

\* The subset argument of _get_enforced_prs_rules: None, or a list of ids.
None == [given |-> FALSE, ids |-> {}]

\* _get_enforced_prs_rules; the ids of the rules returned
_get_enforced_prs_rules(g, prs, subset) ==
    LET subset_ == IF subset.given /\ subset.ids # {} THEN subset.ids
                   ELSE prs.policy_rules
    IN IF prs.parent_id # ""
       THEN LET parent == g.policy_rule_sets[prs.parent_id]
                parent_policy_rules == RulesOf(g, parent.policy_rules)
                subset_rules == RulesOf(g, subset_)
                parent_classifier_ids ==
                    {g.policy_rules[x].policy_classifier_id :
                        x \in parent_policy_rules}
            IN {x \in subset_rules :
                   g.policy_rules[x].policy_classifier_id
                      \in parent_classifier_ids}
       ELSE RulesOf(g, subset_)

\* _get_rules_prss
_get_rules_prss(g, rule_ids) == UNION {RuleSetsOf(g, r) : r \in rule_ids}

\* _handle_policy_rule_sets
_handle_policy_rule_sets(w, current) ==
    IF current.provided_policy_rule_sets # {}
       \/ current.consumed_policy_rule_sets # {}
    THEN _handle_redirect_action(w, current.consumed_policy_rule_sets
                                       \cup current.provided_policy_rule_sets)
    ELSE w

-----------------------------------------------------------------------------
(* Resource mapping driver: the hooks *)

\* No concurrent execution.
NoProcs == EmptyMap

NoCtx == [op |-> "none", kind |-> "", id |-> "", current |-> [id |-> ""]]

\* The tables of the group policy plugin, empty.
NoPolicy ==
    [l3_policies |-> EmptyMap, l2_policies |-> EmptyMap,
     policy_target_groups |-> EmptyMap, policy_targets |-> EmptyMap,
     policy_actions |-> EmptyMap, policy_rules |-> EmptyMap,
     policy_rule_sets |-> EmptyMap, external_segments |-> EmptyMap,
     external_policies |-> EmptyMap]

\* No service chain instance and no PtgServiceChainInstanceMapping row.
NoChains == [instances |-> EmptyMap, mapping |-> {}]

NoOutcome ==
    [status |-> "none", exc |-> "", op |-> "none", kind |-> "", gone |-> {}]

RouterInputs == {<<>>, <<RtrX>>, <<"rtr_none">>, <<RtrX, RtrX>>}

\* The external routes a request gives an external segment.
RouteInputs == {{<<"d1", "h1">>, <<"d0", "">>}, {<<"d2", "h2">>}}

RmdStart ==
    /\ neutron \in
          {[networks |-> (NetX :> [tenant_id |-> "t1", shared |-> FALSE]
                          @@ NetY :> [tenant_id |-> "t2", shared |-> TRUE]),
            subnets |-> (SubX :> [network_id |-> NetX, cidr |-> 1]),
            ports |-> (PortX :> [network_id |-> NetX, subnet_id |-> SubX]),
            routers |-> (RtrX :> NewRouter("t1")),
            router_interfaces |-> i] : i \in {{}, {<<RtrX, SubX>>}}}
    /\ owned = [networks |-> {}, subnets |-> {}, ports |-> {}, routers |-> {}]
    /\ gbp = NoPolicy
    /\ chains = NoChains
    /\ next_id = 0
    /\ ctx = NoCtx
    /\ outcome = NoOutcome

RmdInit == RmdStart /\ scope = RmdScope /\ procs = NoProcs

\* Two policy target groups of one tenant and no policy target: the runs of
\* the implicit subnet allocation.
SubScope ==
    [l3p |-> L3PIds, l2p |-> L2PIds, ptg |-> {"ptg1", "ptg2"}, pt |-> {},
     tenants |-> {"t1"},
     ptg_inputs |-> [p \in {"ptg1", "ptg2"} |-> {NoRuleSets}],
     rules |-> {}, rule_inputs |-> {}, rule_sets |-> {}, classifiers |-> {},
     es_inputs |-> {{}}]

SubInit == RmdStart /\ scope = SubScope /\ procs = NoProcs

\* Two policy target groups, two policy rules and two policy rule sets of
\* one tenant: the runs of the redirect actions.  The first group provides
\* and consumes, the second consumes.
PrsScope ==
    [l3p |-> {}, l2p |-> {}, ptg |-> {"ptg1", "ptg2"}, pt |-> {},
     tenants |-> {"t1"},
     ptg_inputs |->
         [p \in {"ptg1", "ptg2"} |->
             {[provided |-> x, consumed |-> y] :
                 x \in IF p = "ptg1" THEN {{}, {"prs1"}} ELSE {{}},
                 y \in {{}, {"prs1"}}}],
     rules |-> {"rule1", "rule2"},
     rule_inputs |->
         {[policy_classifier_id |-> "cls1", policy_actions |-> {"act1"}],
          [policy_classifier_id |-> "cls2", policy_actions |-> {"act2"}],
          [policy_classifier_id |-> "cls1", policy_actions |-> {"act3"}],
          [policy_classifier_id |-> "cls1",
           policy_actions |-> {"act1", "act2"}]},
     rule_sets |-> {"prs1", "prs2"}, classifiers |-> {"cls1", "cls2"},
     es_inputs |-> {{}}]

\* Two policy target groups that each provide and consume the one policy rule
\* set or not, whose one rule has a redirect or an allow action.
PairScope ==
    [l3p |-> {}, l2p |-> {}, ptg |-> {"ptg1", "ptg2"}, pt |-> {},
     tenants |-> {"t1"},
     ptg_inputs |->
         [p \in {"ptg1", "ptg2"} |->
             {[provided |-> x, consumed |-> y] :
                 x \in {{}, {"prs1"}}, y \in {{}, {"prs1"}}}],
     rules |-> {"rule1"},
     rule_inputs |->
         {[policy_classifier_id |-> "cls1", policy_actions |-> {"act1"}],
          [policy_classifier_id |-> "cls1", policy_actions |-> {"act3"}]},
     rule_sets |-> {"prs1"}, classifiers |-> {"cls1"},
     es_inputs |-> {{}}]

\* The tenant has a network with two subnets and a router, an L3 policy on
\* the router, an L2 policy on the network, a policy target group on each
\* subnet, two redirect actions and an allow action.
\* Three policy rules with one of two classifiers and an allow action, and two
\* policy rule sets: the calls of _get_enforced_prs_rules.
EnfScope ==
    [l3p |-> {}, l2p |-> {}, ptg |-> {}, pt |-> {}, tenants |-> {"t1"},
     ptg_inputs |-> EmptyMap, rules |-> {"rule1", "rule2", "rule3"},
     rule_inputs |->
         {[policy_classifier_id |-> c, policy_actions |-> {"act3"}] :
             c \in {"cls1", "cls2"}},
     rule_sets |-> {"prs1", "prs2"}, classifiers |-> {"cls1", "cls2"},
     es_inputs |-> {{}}]

EnfInit ==
    /\ neutron = [networks |-> EmptyMap, subnets |-> EmptyMap,
                  ports |-> EmptyMap, routers |-> EmptyMap,
                  router_interfaces |-> {}]
    /\ owned = [networks |-> {}, subnets |-> {}, ports |-> {}, routers |-> {}]
    /\ gbp = [NoPolicy EXCEPT
                 !.policy_actions =
                     "act3" :> [action_type |-> GP_ACTION_ALLOW]]
    /\ chains = NoChains
    /\ next_id = 0
    /\ ctx = NoCtx
    /\ outcome = NoOutcome
    /\ scope = EnfScope /\ procs = NoProcs

PrsState ==
    /\ neutron =
          [networks |-> (NetX :> [tenant_id |-> "t1", shared |-> FALSE]),
           subnets |-> (SubX :> [network_id |-> NetX, cidr |-> 1]
                        @@ SubY :> [network_id |-> NetX, cidr |-> 2]),
           ports |-> EmptyMap,
           routers |-> (RtrX :> NewRouter("t1")),
           router_interfaces |-> {<<RtrX, SubX>>, <<RtrX, SubY>>}]
    /\ owned = [networks |-> {}, subnets |-> {}, ports |-> {}, routers |-> {}]
    /\ gbp = [NoPolicy EXCEPT
                 !.l3_policies = "l3p1" :> [tenant_id |-> "t1",
                                            routers |-> <<RtrX>>,
                                            external_segments |-> {}],
                 !.l2_policies = "l2p1" :> [tenant_id |-> "t1",
                                            l3_policy_id |-> "l3p1",
                                            network_id |-> NetX,
                                            shared |-> FALSE],
                 !.policy_target_groups =
                     [p \in {"ptg1", "ptg2"} |->
                         [tenant_id |-> "t1", l2_policy_id |-> "l2p1",
                          subnets |-> IF p = "ptg1" THEN <<SubX>>
                                      ELSE <<SubY>>,
                          provided_policy_rule_sets |-> {},
                          consumed_policy_rule_sets |-> {}]],
                 !.policy_actions =
                     "act1" :> [action_type |-> GP_ACTION_REDIRECT]
                     @@ "act2" :> [action_type |-> GP_ACTION_REDIRECT]
                     @@ "act3" :> [action_type |-> GP_ACTION_ALLOW]]
    /\ chains = NoChains
    /\ next_id = MaxCreated
    /\ ctx = NoCtx
    /\ outcome = NoOutcome

PrsInit == PrsState /\ scope = PrsScope /\ procs = NoProcs

PairInit == PrsState /\ scope = PairScope /\ procs = NoProcs

\* Two policy rule sets with a redirect rule each, an external policy that
\* consumes any of them, a group that provides any of them and a group that
\* consumes the first or not.
EpScope ==
    [l3p |-> {}, l2p |-> {}, ptg |-> {"ptg1", "ptg2"}, pt |-> {},
     tenants |-> {"t1"},
     ptg_inputs |->
         [p \in {"ptg1", "ptg2"} |->
             {[provided |-> x, consumed |-> y] :
                 x \in IF p = "ptg1" THEN SUBSET {"prs1", "prs2"} ELSE {{}},
                 y \in IF p = "ptg2" THEN {{}, {"prs1"}} ELSE {{}}}],
     rules |-> {}, rule_inputs |-> {}, rule_sets |-> {},
     classifiers |-> {"cls1", "cls2"}, es_inputs |-> {{}}]

EpInit ==
    /\ neutron =
          [networks |-> (NetX :> [tenant_id |-> "t1", shared |-> FALSE]),
           subnets |-> (SubX :> [network_id |-> NetX, cidr |-> 1]
                        @@ SubY :> [network_id |-> NetX, cidr |-> 2]),
           ports |-> EmptyMap,
           routers |-> (RtrX :> NewRouter("t1")),
           router_interfaces |-> {<<RtrX, SubX>>, <<RtrX, SubY>>}]
    /\ owned = [networks |-> {}, subnets |-> {}, ports |-> {}, routers |-> {}]
    /\ gbp = [NoPolicy EXCEPT
                 !.l3_policies = "l3p1" :> [tenant_id |-> "t1",
                                            routers |-> <<RtrX>>,
                                            external_segments |-> {}],
                 !.l2_policies = "l2p1" :> [tenant_id |-> "t1",
                                            l3_policy_id |-> "l3p1",
                                            network_id |-> NetX,
                                            shared |-> FALSE],
                 !.policy_target_groups =
                     [p \in {"ptg1", "ptg2"} |->
                         [tenant_id |-> "t1", l2_policy_id |-> "l2p1",
                          subnets |-> IF p = "ptg1" THEN <<SubX>>
                                      ELSE <<SubY>>,
                          provided_policy_rule_sets |-> {},
                          consumed_policy_rule_sets |-> {}]],
                 !.external_policies =
                     "ep1" :> [tenant_id |-> "t1",
                               external_segments |-> {"es1"},
                               provided_policy_rule_sets |-> {},
                               consumed_policy_rule_sets |-> {}],
                 !.policy_actions =
                     "act1" :> [action_type |-> GP_ACTION_REDIRECT]
                     @@ "act2" :> [action_type |-> GP_ACTION_REDIRECT],
                 !.policy_rules =
                     "rule1" :> [policy_classifier_id |-> "cls1",
                                 policy_actions |-> {"act1"}]
                     @@ "rule2" :> [policy_classifier_id |-> "cls2",
                                    policy_actions |-> {"act2"}],
                 !.policy_rule_sets =
                     "prs1" :> [policy_rules |-> {"rule1"}, parent_id |-> "",
                                child_policy_rule_sets |-> {}]
                     @@ "prs2" :> [policy_rules |-> {"rule2"},
                                   parent_id |-> "",
                                   child_policy_rule_sets |-> {}]]
    /\ chains = NoChains
    /\ next_id = MaxCreated
    /\ ctx = NoCtx
    /\ outcome = NoOutcome
    /\ scope = EpScope /\ procs = NoProcs

\* One more L3 policy to create, on no, one or both of two external segments;
\* the first group provides the one policy rule set or not.
L3Scope ==
    [l3p |-> {"l3p2"}, l2p |-> {}, ptg |-> {}, pt |-> {}, tenants |-> {"t1"},
     ptg_inputs |->
         [p \in {"ptg1", "ptg2"} |->
             {[provided |-> x, consumed |-> {}] :
                 x \in IF p = "ptg1" THEN {{}, {"prs1"}} ELSE {{}}}],
     rules |-> {}, rule_inputs |-> {}, rule_sets |-> {}, classifiers |-> {},
     es_inputs |-> SUBSET {"es1", "es2"}]

\* The tenant has a network with two subnets, a router, two external
\* networks with an external segment each, an L3 policy on the router, an L2
\* policy on the network and one on a shared network, two policy target
\* groups on the first L2 policy, a policy target and a policy rule set
\* without rules.
L3Init ==
    /\ neutron =
          [networks |-> (NetX :> [tenant_id |-> "t1", shared |-> FALSE]
                         @@ NetY :> [tenant_id |-> "t2", shared |-> TRUE]
                         @@ "net_e" :> [tenant_id |-> "t1", shared |-> FALSE]
                         @@ "net_f" :> [tenant_id |-> "t1", shared |-> FALSE]),
           subnets |-> (SubX :> [network_id |-> NetX, cidr |-> 1]
                        @@ SubY :> [network_id |-> NetX, cidr |-> 2]
                        @@ "sub_e" :> [network_id |-> "net_e", cidr |-> 3]
                        @@ "sub_f" :> [network_id |-> "net_f", cidr |-> 4]),
           ports |-> (PortX :> [network_id |-> NetX, subnet_id |-> SubX]),
           routers |-> (RtrX :> NewRouter("t1")),
           router_interfaces |-> {<<RtrX, SubX>>, <<RtrX, SubY>>}]
    /\ owned = [networks |-> {}, subnets |-> {}, ports |-> {}, routers |-> {}]
    /\ gbp = [NoPolicy EXCEPT
                 !.l3_policies = "l3p1" :> [tenant_id |-> "t1",
                                            routers |-> <<RtrX>>,
                                            external_segments |-> {}],
                 !.l2_policies =
                     "l2p1" :> [tenant_id |-> "t1", l3_policy_id |-> "l3p1",
                                network_id |-> NetX, shared |-> FALSE]
                     @@ "l2p2" :> [tenant_id |-> "t1", l3_policy_id |-> "l3p1",
                                   network_id |-> NetY, shared |-> FALSE],
                 !.policy_target_groups =
                     [p \in {"ptg1", "ptg2"} |->
                         [tenant_id |-> "t1", l2_policy_id |-> "l2p1",
                          subnets |-> IF p = "ptg1" THEN <<SubX>>
                                      ELSE <<SubY>>,
                          provided_policy_rule_sets |-> {},
                          consumed_policy_rule_sets |-> {}]],
                 !.policy_targets =
                     "pt1" :> [policy_target_group_id |-> "ptg1",
                               port_id |-> PortX],
                 !.policy_rule_sets =
                     "prs1" :> [policy_rules |-> {}, parent_id |-> "",
                                child_policy_rule_sets |-> {}],
                 !.external_segments =
                     "es1" :> [subnet_id |-> "sub_e",
                               port_address_translation |-> FALSE,
                               external_routes |->
                                   {<<"d1", "h1">>, <<"d0", "">>}]
                     @@ "es2" :> [subnet_id |-> "sub_f",
                                  port_address_translation |-> FALSE,
                                  external_routes |-> {<<"d2", "h2">>}]]
    /\ chains = NoChains
    /\ next_id = MaxCreated
    /\ ctx = NoCtx
    /\ outcome = NoOutcome
    /\ scope = L3Scope /\ procs = NoProcs

\* The plugin has written (create, update) or removed (delete) the object's
\* row and the precommit hook has raised e or, with e = "", returned.  The
\* outcome of a rejected request names the request.
\* c is the context the postcommit hook will get, sc the mapping rows and
\* instances the transaction leaves.
PrecommitCtx(c, e, table, sc) ==
    /\ IF e = ""
       THEN /\ gbp' = table
            /\ ctx' = c
            /\ chains' = sc
            /\ outcome' = [status |-> "accepted", exc |-> "", op |-> c.op,
                           kind |-> c.kind, gone |-> {}]
       ELSE /\ outcome' = [status |-> "rejected", exc |-> e, op |-> c.op,
                           kind |-> c.kind, gone |-> {}, request |-> c]
            /\ UNCHANGED <<gbp, ctx, chains>>
    /\ UNCHANGED <<valVars, mapVars, scope, procs>>

Precommit(op, kind, id, current, e, table) ==
    PrecommitCtx([op |-> op, kind |-> kind, id |-> id, current |-> current],
                 e, table, chains)

\* The postcommit hook has left w; what it did before an exception stays.
\* The outcome names the Neutron resources that went with the hook.
Postcommit(w) ==
    /\ neutron' = w.n
    /\ owned' = w.o
    /\ gbp' = w.g
    /\ next_id' = w.next
    /\ chains' = w.sc
    /\ ctx' = NoCtx
    /\ outcome' = [status |-> IF w.exc = "" THEN "done" ELSE "raised",
                   exc |-> w.exc, op |-> ctx.op, kind |-> ctx.kind,
                   gone |-> ResourceIds(neutron) \ ResourceIds(w.n),
                   tried |-> w.tried]
    /\ UNCHANGED <<valVars, mapVars, scope, procs>>

\* A postcommit hook that makes service chain instances, while the service
\* chain plugin has room for them.
PostcommitChains(w) ==
    /\ w.exc # "OutOfServiceChainInstances"
    /\ Postcommit(w)

\* create_l3_policy_precommit
create_l3_policy_precommit ==
    /\ ctx.op = "none"
    /\ \E id \in scope.l3p \ DOMAIN gbp.l3_policies,
          tenant_id \in scope.tenants,
          routers_ \in RouterInputs,
          external_segments \in scope.es_inputs :
          LET current == [tenant_id |-> tenant_id, routers |-> routers_,
                          external_segments |-> external_segments]
          IN /\ Len(routers_) = 0 => next_id < MaxCreated
             /\ Precommit("create", "l3_policy", id, current,
                    FirstRaised(<<
                        IF Len(routers_) > 1
                        THEN "L3PolicyMultipleRoutersNotSupported" ELSE "",
                        IF Cardinality(external_segments) > 1
                        THEN "MultipleESPerL3PolicyNotSupported" ELSE "",
                        _reject_invalid_router_access(World, current)>>),
                    [gbp EXCEPT !.l3_policies = Put(@, id, current)])
    /\ UNCHANGED <<neutron, owned, next_id>>

\* create_l3_policy_postcommit
create_l3_policy_postcommit ==
    /\ ctx.op = "create" /\ ctx.kind = "l3_policy"
    /\ LET w1 == IF Len(ctx.current.routers) = 0
                 THEN _use_implicit_router(World, ctx.id) ELSE World
           w2 == _plug_router_to_external_segment(
                     w1, ctx.id, ctx.current.external_segments)
       IN Postcommit(IF ctx.current.external_segments = {} THEN w1
                     ELSE IF w2.exc # "" THEN w2
                     ELSE _set_l3p_routes(w2, ctx.id))

\* delete_l3_policy_precommit; the plugin deletes no L3 policy in use
delete_l3_policy_precommit ==
    /\ ctx.op = "none"
    /\ \E id \in DOMAIN gbp.l3_policies :
          /\ \A x \in DOMAIN gbp.l2_policies :
                gbp.l2_policies[x].l3_policy_id # id
          /\ Precommit("delete", "l3_policy", id, gbp.l3_policies[id], "",
                       [gbp EXCEPT !.l3_policies = Remove(@, id)])
    /\ UNCHANGED <<neutron, owned, next_id>>

\* delete_l3_policy_postcommit
delete_l3_policy_postcommit ==
    /\ ctx.op = "delete" /\ ctx.kind = "l3_policy"
    /\ Postcommit(CleanupRouters(World, ctx.current.routers))

\* create_l2_policy_precommit
create_l2_policy_precommit ==
    /\ ctx.op = "none"
    /\ \E id \in scope.l2p \ DOMAIN gbp.l2_policies,
          tenant_id \in scope.tenants,
          l3_policy_id \in DOMAIN gbp.l3_policies,
          network_id \in {"", "net_none"} \cup DOMAIN neutron.networks,
          shared \in BOOLEAN :
          LET current == [tenant_id |-> tenant_id,
                          l3_policy_id |-> l3_policy_id,
                          network_id |-> network_id, shared |-> shared]
          IN /\ network_id = "" => next_id < MaxCreated
             /\ Precommit("create", "l2_policy", id, current,
                    FirstRaised(<<
                        _reject_cross_tenant_l2p_l3p(World, current),
                        _reject_non_shared_net_on_shared_l2p(World, current),
                        _reject_invalid_network_access(World, current)>>),
                    [gbp EXCEPT !.l2_policies = Put(@, id, current)])
    /\ UNCHANGED <<neutron, owned, next_id>>

\* create_l2_policy_postcommit
create_l2_policy_postcommit ==
    /\ ctx.op = "create" /\ ctx.kind = "l2_policy"
    /\ Postcommit(IF ctx.current.network_id = ""
                  THEN _use_implicit_network(World, ctx.id) ELSE World)

\* delete_l2_policy_precommit; the plugin deletes no L2 policy in use
delete_l2_policy_precommit ==
    /\ ctx.op = "none"
    /\ \E id \in DOMAIN gbp.l2_policies :
          /\ \A x \in DOMAIN gbp.policy_target_groups :
                gbp.policy_target_groups[x].l2_policy_id # id
          /\ Precommit("delete", "l2_policy", id, gbp.l2_policies[id], "",
                       [gbp EXCEPT !.l2_policies = Remove(@, id)])
    /\ UNCHANGED <<neutron, owned, next_id>>

\* delete_l2_policy_postcommit
delete_l2_policy_postcommit ==
    /\ ctx.op = "delete" /\ ctx.kind = "l2_policy"
    /\ Postcommit(_cleanup_network(World, ctx.current.network_id))

\* The rule sets the request for group id can name.
RuleSetInputs(id) ==
    {x \in scope.ptg_inputs[id] :
        x.provided \cup x.consumed \subseteq DOMAIN gbp.policy_rule_sets}

\* create_policy_target_group_precommit
create_policy_target_group_precommit ==
    /\ ctx.op = "none"
    /\ \E id \in scope.ptg \ DOMAIN gbp.policy_target_groups,
          tenant_id \in scope.tenants, l2_policy_id \in DOMAIN gbp.l2_policies,
          subnets_ \in {<<>>} \cup {<<s>> : s \in DOMAIN neutron.subnets} :
       \E sets \in RuleSetInputs(id) :
          LET current == [tenant_id |-> tenant_id,
                          l2_policy_id |-> l2_policy_id,
                          subnets |-> subnets_,
                          provided_policy_rule_sets |-> sets.provided,
                          consumed_policy_rule_sets |-> sets.consumed]
          IN /\ Len(subnets_) = 0 => next_id + PoolSize <= MaxCreated
             /\ Precommit("create", "policy_target_group", id, current,
                    FirstRaised(<<
                        _reject_cross_tenant_ptg_l2p(World, current),
                        _validate_ptg_subnets(World, current)>>),
                    [gbp EXCEPT !.policy_target_groups = Put(@, id, current)])
    /\ UNCHANGED <<neutron, owned, next_id>>

\* create_policy_target_group_postcommit, as far as subnets, routers and
\* service chains go
create_policy_target_group_postcommit ==
    /\ ctx.op = "create" /\ ctx.kind = "policy_target_group"
    /\ LET w1 == IF Len(ctx.current.subnets) > 0
                 THEN UseExplicitSubnets(World, ctx.current.subnets,
                          _get_routerid_for_l2policy(
                              World, ctx.current.l2_policy_id))
                 ELSE _use_implicit_subnet(World, ctx.id)
           w2 == IF w1.exc # "" THEN w1
                 ELSE _handle_policy_rule_sets(w1, ctx.current)
       IN PostcommitChains(w2)

\* delete_policy_target_group_precommit; the plugin deletes no group in use,
\* and the mapping rows of the group as provider go with its row
delete_policy_target_group_precommit ==
    /\ ctx.op = "none"
    /\ \E id \in DOMAIN gbp.policy_target_groups :
          /\ \A x \in DOMAIN gbp.policy_targets :
                gbp.policy_targets[x].policy_target_group_id # id
          /\ \E ptg_chain_map \in ChainMaps(chains, id) :
                PrecommitCtx(
                    [op |-> "delete", kind |-> "policy_target_group",
                     id |-> id, current |-> gbp.policy_target_groups[id],
                     ptg_chain_map |-> ptg_chain_map],
                    "", [gbp EXCEPT !.policy_target_groups = Remove(@, id)],
                    [chains EXCEPT !.mapping =
                         {m \in @ : m.provider_ptg_id # id}])
    /\ UNCHANGED <<neutron, owned, next_id>>

\* delete_policy_target_group_postcommit, as far as service chains, subnets
\* and routers go
delete_policy_target_group_postcommit ==
    /\ ctx.op = "delete" /\ ctx.kind = "policy_target_group"
    /\ LET w1 == _cleanup_redirect_action(World, ctx.ptg_chain_map)
           router_id == _get_routerid_for_l2policy(World,
                                                   ctx.current.l2_policy_id)
       IN Postcommit(IF w1.exc # "" THEN w1
                     ELSE IF router_id = "" THEN Raise(w1, "IndexError")
                     ELSE CleanupSubnets(w1, ctx.current.subnets, router_id))

\* create_policy_target_precommit
create_policy_target_precommit ==
    /\ ctx.op = "none"
    /\ \E id \in scope.pt \ DOMAIN gbp.policy_targets,
          policy_target_group_id \in {""} \cup DOMAIN gbp.policy_target_groups,
          port_id \in {"", "port_none"} \cup DOMAIN neutron.ports :
          LET current == [policy_target_group_id |-> policy_target_group_id,
                          port_id |-> port_id]
          IN /\ port_id = "" => next_id < MaxCreated
             /\ Precommit("create", "policy_target", id, current,
                    IF policy_target_group_id = ""
                    THEN "PolicyTargetRequiresPolicyTargetGroup"
                    ELSE IF port_id # ""
                         THEN _validate_pt_port_subnets(World, current)
                         ELSE "",
                    [gbp EXCEPT !.policy_targets = Put(@, id, current)])
    /\ UNCHANGED <<neutron, owned, next_id>>

\* create_policy_target_postcommit, as far as the port goes
create_policy_target_postcommit ==
    /\ ctx.op = "create" /\ ctx.kind = "policy_target"
    /\ IF ctx.current.port_id = ""
       THEN LET ptg == gbp.policy_target_groups[
                           ctx.current.policy_target_group_id]
                on_net == SubnetsOf(neutron,
                              gbp.l2_policies[ptg.l2_policy_id].network_id)
            IN \E ip_subnet \in IF on_net = {} THEN {""} ELSE on_net :
                  Postcommit(_use_implicit_port(World, ctx.id, ip_subnet))
       ELSE Postcommit(World)

\* delete_policy_target_precommit
delete_policy_target_precommit ==
    /\ ctx.op = "none"
    /\ \E id \in DOMAIN gbp.policy_targets :
          Precommit("delete", "policy_target", id, gbp.policy_targets[id], "",
                    [gbp EXCEPT !.policy_targets = Remove(@, id)])
    /\ UNCHANGED <<neutron, owned, next_id>>

\* delete_policy_target_postcommit, as far as the port goes
delete_policy_target_postcommit ==
    /\ ctx.op = "delete" /\ ctx.kind = "policy_target"
    /\ Postcommit(_cleanup_port(World, ctx.current.port_id))

\* update_policy_target_group_precommit; the update names an L2 policy and
\* the rule sets the group provides and consumes, and leaves the subnets
update_policy_target_group_precommit ==
    /\ ctx.op = "none"
    /\ \E id \in DOMAIN gbp.policy_target_groups,
          l2_policy_id \in DOMAIN gbp.l2_policies :
       \E sets \in RuleSetInputs(id) :
          LET original == gbp.policy_target_groups[id]
              current == [original EXCEPT
                             !.l2_policy_id = l2_policy_id,
                             !.provided_policy_rule_sets = sets.provided,
                             !.consumed_policy_rule_sets = sets.consumed]
              table == [gbp EXCEPT !.policy_target_groups[id] = current]
              w == [World EXCEPT !.g = table]
              changed ==
                  \/ original.provided_policy_rule_sets # sets.provided
                  \/ original.consumed_policy_rule_sets # sets.consumed
          IN /\ current # original
             /\ \E ptg_chain_map \in IF changed THEN ChainMaps(chains, id)
                                      ELSE {<<>>} :
                PrecommitCtx(
                    [op |-> "update", kind |-> "policy_target_group",
                     id |-> id, current |-> current, original |-> original,
                     ptg_chain_map |-> ptg_chain_map],
                    FirstRaised(<<
                        IF original.l2_policy_id # ""
                           /\ original.l2_policy_id # l2_policy_id
                        THEN "L2PolicyUpdateOfPolicyTargetGroupNotSupported"
                        ELSE "",
                        _validate_ptg_subnets(w, current),
                        _reject_cross_tenant_ptg_l2p(w, current)>>),
                    table, chains)
    /\ UNCHANGED <<neutron, owned, next_id>>

\* update_policy_target_group_postcommit, as far as service chains go
update_policy_target_group_postcommit ==
    /\ ctx.op = "update" /\ ctx.kind = "policy_target_group"
    /\ LET changed ==
              \/ ctx.original.provided_policy_rule_sets
                    # ctx.current.provided_policy_rule_sets
              \/ ctx.original.consumed_policy_rule_sets
                    # ctx.current.consumed_policy_rule_sets
           w1 == _cleanup_redirect_action(World, ctx.ptg_chain_map)
           policy_rule_sets == ctx.current.consumed_policy_rule_sets
                                  \cup ctx.current.provided_policy_rule_sets
       IN PostcommitChains(
              IF ~changed THEN World
              ELSE IF w1.exc # "" \/ policy_rule_sets = {} THEN w1
              ELSE _handle_redirect_action(w1, policy_rule_sets))

\* create_policy_rule_precommit
create_policy_rule_precommit ==
    /\ ctx.op = "none"
    /\ \E id \in scope.rules \ DOMAIN gbp.policy_rules,
          current \in scope.rule_inputs :
             Precommit("create", "policy_rule", id, current,
                       _reject_multiple_redirects_in_rule(World, current),
                       [gbp EXCEPT !.policy_rules = Put(@, id, current)])
    /\ UNCHANGED <<neutron, owned, next_id>>

\* create_policy_rule_postcommit
create_policy_rule_postcommit ==
    /\ ctx.op = "create" /\ ctx.kind = "policy_rule"
    /\ Postcommit(World)

\* update_policy_rule_precommit
update_policy_rule_precommit ==
    /\ ctx.op = "none"
    /\ \E id \in DOMAIN gbp.policy_rules,
          current \in scope.rule_inputs :
          LET original == gbp.policy_rules[id]
          IN /\ current # original
             /\ PrecommitCtx(
                    [op |-> "update", kind |-> "policy_rule", id |-> id,
                     current |-> current, original |-> original],
                    _reject_multiple_redirects_in_rule(World, current),
                    [gbp EXCEPT !.policy_rules[id] = current], chains)
    /\ UNCHANGED <<neutron, owned, next_id>>

\* update_policy_rule_postcommit, as far as service chains go
update_policy_rule_postcommit ==
    /\ ctx.op = "update" /\ ctx.kind = "policy_rule"
    /\ PostcommitChains(
          IF \/ ctx.original.policy_classifier_id
                   # ctx.current.policy_classifier_id
             \/ ctx.current.policy_actions # ctx.original.policy_actions
          THEN _handle_redirect_action(World, RuleSetsOf(gbp, ctx.id))
          ELSE World)

\* update_policy_classifier_postcommit for a classifier some rule names; the
\* precommit hook does nothing, and a classifier's own attributes are not
\* part of the model
update_policy_classifier_postcommit ==
    /\ ctx.op = "none"
    /\ \E id \in scope.classifiers :
          LET policy_rules == {r \in DOMAIN gbp.policy_rules :
                                 gbp.policy_rules[r].policy_classifier_id = id}
              w == _handle_redirect_action(World,
                                           _get_rules_prss(gbp, policy_rules))
          IN /\ policy_rules # {}
             /\ w.exc # "OutOfServiceChainInstances"
             /\ chains' = w.sc
             /\ outcome' = [status |-> IF w.exc = "" THEN "done"
                                       ELSE "raised",
                            exc |-> w.exc, op |-> "update",
                            kind |-> "policy_classifier", gone |-> {}]
    /\ UNCHANGED <<valVars, mapVars, neutron, owned, gbp, next_id, ctx, scope,
                   procs>>

\* A call of _get_enforced_prs_rules for a rule set, without the subset
\* argument or with a list of ids of policy rules; the outcome has what the
\* call returned.
get_enforced_prs_rules ==
    /\ ctx.op = "none"
    /\ \E id \in DOMAIN gbp.policy_rule_sets,
          subset \in {None} \cup {[given |-> TRUE, ids |-> s] :
                                    s \in SUBSET DOMAIN gbp.policy_rules} :
          outcome' = [status |-> "returned", exc |-> "",
                      op |-> "_get_enforced_prs_rules",
                      kind |-> "policy_rule_set", gone |-> {},
                      request |-> [id |-> id, subset |-> subset],
                      ret |-> _get_enforced_prs_rules(
                                  gbp, gbp.policy_rule_sets[id], subset)]
    /\ UNCHANGED <<valVars, mapVars, neutron, owned, gbp, next_id, ctx, scope,
                   chains, procs>>

\* The plugin's policy rule set rows after rule set id has got the children
\* named: a rule set has one parent at most.
SetChildren(table, id, children) ==
    [x \in DOMAIN table |->
        IF x = id THEN table[x]
        ELSE IF x \in children THEN [table[x] EXCEPT !.parent_id = id]
        ELSE IF table[x].parent_id = id THEN [table[x] EXCEPT !.parent_id = ""]
        ELSE [table[x] EXCEPT !.child_policy_rule_sets = @ \ children]]

\* The children the plugin takes for rule set id: rule sets without children
\* of their own, for a rule set without a parent.
ChildInputs(g, id) ==
    {c \in SUBSET (DOMAIN g.policy_rule_sets \ {id}) :
        /\ \A x \in c : g.policy_rule_sets[x].child_policy_rule_sets = {}
        /\ (c # {} /\ id \in DOMAIN g.policy_rule_sets)
              => g.policy_rule_sets[id].parent_id = ""}

\* The plugin's policy rule set rows after the row of rule set id has gone.
Unlink(table, id) ==
    [x \in DOMAIN table \ {id} |->
        [table[x] EXCEPT !.child_policy_rule_sets = @ \ {id},
                         !.parent_id = IF @ = id THEN "" ELSE @]]

\* create_policy_rule_set_precommit
create_policy_rule_set_precommit ==
    /\ ctx.op = "none"
    /\ \E id \in scope.rule_sets \ DOMAIN gbp.policy_rule_sets,
          policy_rules \in SUBSET DOMAIN gbp.policy_rules :
       \E child_policy_rule_sets \in ChildInputs(gbp, id) :
          LET current == [policy_rules |-> policy_rules, parent_id |-> "",
                          child_policy_rule_sets |-> child_policy_rule_sets]
          IN Precommit("create", "policy_rule_set", id, current,
                       _reject_multiple_redirects_in_prs(World, current),
                       [gbp EXCEPT !.policy_rule_sets =
                           SetChildren(Put(@, id, current), id,
                                       child_policy_rule_sets)])
    /\ UNCHANGED <<neutron, owned, next_id>>

\* create_policy_rule_set_postcommit, as far as service chains go
create_policy_rule_set_postcommit ==
    /\ ctx.op = "create" /\ ctx.kind = "policy_rule_set"
    /\ PostcommitChains(
          IF ctx.current.child_policy_rule_sets # {}
          THEN _handle_redirect_action(World,
                                       ctx.current.child_policy_rule_sets)
          ELSE World)

\* update_policy_rule_set_precommit
update_policy_rule_set_precommit ==
    /\ ctx.op = "none"
    /\ \E id \in DOMAIN gbp.policy_rule_sets,
          policy_rules \in SUBSET DOMAIN gbp.policy_rules :
       \E child_policy_rule_sets \in ChildInputs(gbp, id) :
          LET original == gbp.policy_rule_sets[id]
              current == [original EXCEPT
                             !.policy_rules = policy_rules,
                             !.child_policy_rule_sets = child_policy_rule_sets]
          IN /\ current # original
             /\ PrecommitCtx(
                    [op |-> "update", kind |-> "policy_rule_set", id |-> id,
                     current |-> current, original |-> original],
                    _reject_multiple_redirects_in_prs(World, current),
                    [gbp EXCEPT !.policy_rule_sets =
                        SetChildren([@ EXCEPT ![id] = current], id,
                                    child_policy_rule_sets)],
                    chains)
    /\ UNCHANGED <<neutron, owned, next_id>>

\* update_policy_rule_set_postcommit, as far as service chains go
update_policy_rule_set_postcommit ==
    /\ ctx.op = "update" /\ ctx.kind = "policy_rule_set"
    /\ LET w1 == _handle_redirect_action(World, {ctx.id})
           w2 == IF w1.exc = "" /\ ctx.original.child_policy_rule_sets # {}
                 THEN _handle_redirect_action(
                          w1, ctx.original.child_policy_rule_sets)
                 ELSE w1
           w3 == IF w2.exc = "" /\ ctx.current.child_policy_rule_sets # {}
                 THEN _handle_redirect_action(
                          w2, ctx.current.child_policy_rule_sets)
                 ELSE w2
       IN PostcommitChains(
              IF ctx.original.child_policy_rule_sets
                    # ctx.current.child_policy_rule_sets
              THEN w3 ELSE w1)

\* delete_policy_rule_set_precommit; the plugin deletes no rule set that a
\* group provides or consumes
delete_policy_rule_set_precommit ==
    /\ ctx.op = "none"
    /\ \E id \in DOMAIN gbp.policy_rule_sets :
          /\ ProvidingGroups(gbp, id) = {} /\ ConsumingGroups(gbp, id) = {}
          /\ Precommit("delete", "policy_rule_set", id,
                       gbp.policy_rule_sets[id], "",
                       [gbp EXCEPT !.policy_rule_sets = Unlink(@, id)])
    /\ UNCHANGED <<neutron, owned, next_id>>

\* delete_policy_rule_set_postcommit, as far as service chains go
delete_policy_rule_set_postcommit ==
    /\ ctx.op = "delete" /\ ctx.kind = "policy_rule_set"
    /\ PostcommitChains(
          IF ctx.current.child_policy_rule_sets # {}
          THEN _handle_redirect_action(World,
                                       ctx.current.child_policy_rule_sets)
          ELSE World)

\* The update of an L3 policy with no limit on its external segments.
UpdateL3PolicyAnySegments ==
    /\ ctx.op = "none"
    /\ \E id \in DOMAIN gbp.l3_policies, routers_ \in RouterInputs,
          external_segments \in scope.es_inputs :
          LET original == gbp.l3_policies[id]
              current == [original EXCEPT
                             !.routers = routers_,
                             !.external_segments = external_segments]
          IN /\ current # original
             /\ PrecommitCtx(
                    [op |-> "update", kind |-> "l3_policy", id |-> id,
                     current |-> current, original |-> original],
                    FirstRaised(<<
                        IF current.routers # original.routers
                        THEN "L3PolicyRoutersUpdateNotSupported" ELSE "",
                        _reject_invalid_router_access(World, current)>>),
                    [gbp EXCEPT !.l3_policies[id] = current], chains)
    /\ UNCHANGED <<neutron, owned, next_id>>

\* update_l3_policy_precommit; the update names the routers and the external
\* segments
update_l3_policy_precommit ==
    /\ ctx.op = "none"
    /\ \E id \in DOMAIN gbp.l3_policies, routers_ \in RouterInputs,
          external_segments \in scope.es_inputs :
          LET original == gbp.l3_policies[id]
              current == [original EXCEPT
                             !.routers = routers_,
                             !.external_segments = external_segments]
          IN /\ current # original
             /\ PrecommitCtx(
                    [op |-> "update", kind |-> "l3_policy", id |-> id,
                     current |-> current, original |-> original],
                    FirstRaised(<<
                        IF current.routers # original.routers
                        THEN "L3PolicyRoutersUpdateNotSupported" ELSE "",
                        IF Cardinality(current.external_segments) > 1
                        THEN "MultipleESPerL3PolicyNotSupported" ELSE "",
                        _reject_invalid_router_access(World, current)>>),
                    [gbp EXCEPT !.l3_policies[id] = current], chains)
    /\ UNCHANGED <<neutron, owned, next_id>>

\* update_l3_policy_postcommit, as far as the router goes
update_l3_policy_postcommit ==
    /\ ctx.op = "update" /\ ctx.kind = "l3_policy"
    /\ LET new == ctx.current
           old == ctx.original
           added == new.external_segments \ old.external_segments
           removed == old.external_segments \ new.external_segments
           w1 == IF removed # {}
                 THEN _unplug_router_from_external_segment(World, ctx.id,
                                                           removed)
                 ELSE World
           w2 == IF w1.exc = "" /\ added # {}
                 THEN _plug_router_to_external_segment(w1, ctx.id, added)
                 ELSE w1
       IN Postcommit(
              IF new.external_segments = old.external_segments
                 \/ Len(new.routers) = 0
              THEN World
              ELSE IF w2.exc # "" THEN w2
              ELSE _set_l3p_routes(w2, ctx.id))

\* update_external_segment_precommit; the update names the routes and the
\* address translation
update_external_segment_precommit ==
    /\ ctx.op = "none"
    /\ \E id \in DOMAIN gbp.external_segments,
          external_routes \in RouteInputs,
          port_address_translation \in BOOLEAN :
          LET original == gbp.external_segments[id]
              current == [original EXCEPT
                             !.external_routes = external_routes,
                             !.port_address_translation =
                                 port_address_translation]
          IN /\ current # original
             /\ PrecommitCtx(
                    [op |-> "update", kind |-> "external_segment", id |-> id,
                     current |-> current, original |-> original],
                    IF current.port_address_translation
                          # original.port_address_translation
                    THEN "InvalidAttributeUpdateForES" ELSE "",
                    [gbp EXCEPT !.external_segments[id] = current], chains)
    /\ UNCHANGED <<neutron, owned, next_id>>

\* update_external_segment_postcommit, as far as the routes go
update_external_segment_postcommit ==
    /\ ctx.op = "update" /\ ctx.kind = "external_segment"
    /\ Postcommit(
           IF ctx.current.external_routes # ctx.original.external_routes
           THEN _recompute_l3_policy_routes(World, ctx.id,
                    ctx.current.external_routes, ctx.original.external_routes)
           ELSE World)

\* The update of an L2 policy that may name another L3 policy.
UpdateL2PolicyAnyL3Policy ==
    /\ ctx.op = "none"
    /\ \E id \in DOMAIN gbp.l2_policies,
          l3_policy_id \in DOMAIN gbp.l3_policies, shared \in BOOLEAN :
          LET original == gbp.l2_policies[id]
              current == [original EXCEPT !.l3_policy_id = l3_policy_id,
                                          !.shared = shared]
          IN /\ current # original
             /\ PrecommitCtx(
                    [op |-> "update", kind |-> "l2_policy", id |-> id,
                     current |-> current, original |-> original],
                    FirstRaised(<<
                        _reject_cross_tenant_l2p_l3p(World, current),
                        _reject_non_shared_net_on_shared_l2p(World, current)>>),
                    [gbp EXCEPT !.l2_policies[id] = current], chains)
    /\ UNCHANGED <<neutron, owned, next_id>>

\* update_l2_policy_precommit; the update names an L3 policy and shared
update_l2_policy_precommit ==
    /\ ctx.op = "none"
    /\ \E id \in DOMAIN gbp.l2_policies,
          l3_policy_id \in DOMAIN gbp.l3_policies, shared \in BOOLEAN :
          LET original == gbp.l2_policies[id]
              current == [original EXCEPT !.l3_policy_id = l3_policy_id,
                                          !.shared = shared]
          IN /\ current # original
             /\ PrecommitCtx(
                    [op |-> "update", kind |-> "l2_policy", id |-> id,
                     current |-> current, original |-> original],
                    FirstRaised(<<
                        IF current.l3_policy_id # original.l3_policy_id
                        THEN "L3PolicyUpdateOfL2PolicyNotSupported" ELSE "",
                        _reject_cross_tenant_l2p_l3p(World, current),
                        _reject_non_shared_net_on_shared_l2p(World, current)>>),
                    [gbp EXCEPT !.l2_policies[id] = current], chains)
    /\ UNCHANGED <<neutron, owned, next_id>>

\* CommonNeutronBase.update_l2_policy_precommit; the update names an L3
\* policy and inject_default_route, which is TRUE in every stored L2 policy
CommonNeutronBase_update_l2_policy_precommit ==
    /\ ctx.op = "none"
    /\ \E id \in DOMAIN gbp.l2_policies,
          l3_policy_id \in DOMAIN gbp.l3_policies,
          inject_default_route \in BOOLEAN :
          LET stored == gbp.l2_policies[id]
              original == [x \in DOMAIN stored \cup {"inject_default_route"}
                              |-> IF x = "inject_default_route" THEN TRUE
                                  ELSE stored[x]]
              current == [original EXCEPT
                             !.l3_policy_id = l3_policy_id,
                             !.inject_default_route = inject_default_route]
          IN PrecommitCtx(
                 [op |-> "update", kind |-> "l2_policy", id |-> id,
                  current |-> current, original |-> original],
                 FirstRaised(<<
                     IF current.inject_default_route
                           # original.inject_default_route
                     THEN "UnsettingInjectDefaultRouteOfL2PolicyNotSupported"
                     ELSE "",
                     IF current.l3_policy_id # original.l3_policy_id
                     THEN "L3PolicyUpdateOfL2PolicyNotSupported" ELSE "">>),
                 [gbp EXCEPT !.l2_policies[id].l3_policy_id = l3_policy_id],
                 chains)
    /\ UNCHANGED <<neutron, owned, next_id>>

\* update_l2_policy_postcommit
update_l2_policy_postcommit ==
    /\ ctx.op = "update" /\ ctx.kind = "l2_policy"
    /\ Postcommit(World)

\* update_policy_target_precommit; the update names a policy target group
\* and may change the name and the description, which are not kept here
update_policy_target_precommit ==
    /\ ctx.op = "none"
    /\ \E id \in DOMAIN gbp.policy_targets,
          policy_target_group_id \in DOMAIN gbp.policy_target_groups :
          LET original == gbp.policy_targets[id]
              current == [original EXCEPT
                             !.policy_target_group_id = policy_target_group_id]
          IN PrecommitCtx(
                 [op |-> "update", kind |-> "policy_target", id |-> id,
                  current |-> current, original |-> original],
                 IF current.policy_target_group_id
                       # original.policy_target_group_id
                 THEN "PolicyTargetGroupUpdateOfPolicyTargetNotSupported"
                 ELSE "",
                 [gbp EXCEPT !.policy_targets[id] = current], chains)
    /\ UNCHANGED <<neutron, owned, next_id>>

\* update_policy_target_postcommit
update_policy_target_postcommit ==
    /\ ctx.op = "update" /\ ctx.kind = "policy_target"
    /\ Postcommit(World)

\* ---- external policies ----

\* The requests to update an external policy.
ExternalPolicyInputs ==
    {[provided |-> x, consumed |-> y, external_segments |-> z] :
        x \in {{}, {"prs1"}},
        y \in SUBSET {"prs1", "prs2"},
        z \in {{"es1"}, {"es2"}}}

\* update_external_policy_precommit
update_external_policy_precommit ==
    /\ ctx.op = "none"
    /\ \E id \in DOMAIN gbp.external_policies,
          request \in ExternalPolicyInputs :
          LET original == gbp.external_policies[id]
              current == [original EXCEPT
                  !.provided_policy_rule_sets = request.provided,
                  !.consumed_policy_rule_sets = request.consumed,
                  !.external_segments = request.external_segments]
          IN /\ current # original
             /\ request.provided \cup request.consumed
                   \subseteq DOMAIN gbp.policy_rule_sets
             /\ \E ptg_chain_map \in ChainMaps(chains, id) :
                   PrecommitCtx(
                       [op |-> "update", kind |-> "external_policy",
                        id |-> id, current |-> current,
                        original |-> original,
                        ptg_chain_map |-> ptg_chain_map],
                       IF /\ original.external_segments # {}
                          /\ current.external_segments
                                # original.external_segments
                       THEN "ESUpdateNotSupportedForEP" ELSE "",
                       [gbp EXCEPT !.external_policies[id] = current],
                       chains)
    /\ UNCHANGED <<neutron, owned, next_id>>

\* update_external_policy_postcommit: the cleanup runs when a consumed rule
\* set has gone.
CleanupRemoved(w, original, current, ptg_chain_map) ==
    IF original.consumed_policy_rule_sets
          \ current.consumed_policy_rule_sets # {}
    THEN _cleanup_redirect_action(w, ptg_chain_map) ELSE w

\* update_external_policy_postcommit, as far as service chains go
update_external_policy_postcommit ==
    /\ ctx.op = "update" /\ ctx.kind = "external_policy"
    /\ LET w1 == CleanupRemoved(World, ctx.original, ctx.current,
                                ctx.ptg_chain_map)
           added == ctx.current.consumed_policy_rule_sets
                       \ ctx.original.consumed_policy_rule_sets
       IN PostcommitChains(
              IF w1.exc = "" /\ added # {}
              THEN _handle_redirect_action(w1, added) ELSE w1)

\* delete_external_policy_precommit; the plugin's row goes with it
delete_external_policy_precommit ==
    /\ ctx.op = "none"
    /\ \E id \in DOMAIN gbp.external_policies :
       \E ptg_chain_map \in ChainMaps(chains, id) :
          PrecommitCtx(
              [op |-> "delete", kind |-> "external_policy", id |-> id,
               current |-> gbp.external_policies[id],
               ptg_chain_map |-> ptg_chain_map],
              "", [gbp EXCEPT !.external_policies = Remove(@, id)], chains)
    /\ UNCHANGED <<neutron, owned, next_id>>

\* delete_external_policy_postcommit, as far as service chains go
delete_external_policy_postcommit ==
    /\ ctx.op = "delete" /\ ctx.kind = "external_policy"
    /\ Postcommit(_cleanup_redirect_action(World, ctx.ptg_chain_map))

\* ---- two concurrent executions of _handle_redirect_action ----

\* The executions: two postcommit hooks that run at the same time.
Procs == {"A", "B"}

InFlight(p) == procs.of[p].pc \notin {"idle", "done", "raised"}

Other(p) == CHOOSE q \in Procs : q # p

\* A step of execution p: its position and locals change, and the run is
\* marked concurrent when the other execution is under way.
Step(p, locals) ==
    procs' = [of |-> [procs.of EXCEPT ![p] = locals],
              concurrent |-> procs.concurrent \/ InFlight(Other(p))]

IdleHandler ==
    [pc |-> "idle", pairs |-> <<>>, rows |-> <<>>, ret |-> "", exc |-> ""]

\* The first group provides the one rule set, whose rule has a redirect
\* action; the second group consumes it, the first one consumes it or not,
\* and the pair of the two groups has a service chain instance or not.
HandleRaceInit ==
    /\ neutron =
          [networks |-> (NetX :> [tenant_id |-> "t1", shared |-> FALSE]),
           subnets |-> (SubX :> [network_id |-> NetX, cidr |-> 1]
                        @@ SubY :> [network_id |-> NetX, cidr |-> 2]),
           ports |-> EmptyMap,
           routers |-> (RtrX :> NewRouter("t1")),
           router_interfaces |-> {<<RtrX, SubX>>, <<RtrX, SubY>>}]
    /\ owned = [networks |-> {}, subnets |-> {}, ports |-> {}, routers |-> {}]
    /\ \E consumed \in {{}, {"prs1"}} :
          gbp = [NoPolicy EXCEPT
              !.l3_policies = "l3p1" :> [tenant_id |-> "t1",
                                         routers |-> <<RtrX>>,
                                         external_segments |-> {}],
              !.l2_policies = "l2p1" :> [tenant_id |-> "t1",
                                         l3_policy_id |-> "l3p1",
                                         network_id |-> NetX,
                                         shared |-> FALSE],
              !.policy_target_groups =
                  [p \in {"ptg1", "ptg2"} |->
                      [tenant_id |-> "t1", l2_policy_id |-> "l2p1",
                       subnets |-> IF p = "ptg1" THEN <<SubX>> ELSE <<SubY>>,
                       provided_policy_rule_sets |->
                           IF p = "ptg1" THEN {"prs1"} ELSE {},
                       consumed_policy_rule_sets |->
                           IF p = "ptg1" THEN consumed ELSE {"prs1"}]],
              !.policy_actions =
                  "act1" :> [action_type |-> GP_ACTION_REDIRECT],
              !.policy_rules =
                  "rule1" :> [policy_classifier_id |-> "cls1",
                              policy_actions |-> {"act1"}],
              !.policy_rule_sets =
                  "prs1" :> [policy_rules |-> {"rule1"}, parent_id |-> "",
                             child_policy_rule_sets |-> {}]]
    /\ chains \in
          {NoChains,
           [instances |-> ChainId(1) :> [provider_ptg_id |-> "ptg1",
                                         consumer_ptg_id |-> "ptg2"],
            mapping |-> {[provider_ptg_id |-> "ptg1",
                          consumer_ptg_id |-> "ptg2",
                          servicechain_instance_id |-> ChainId(1)]}]}
    /\ next_id = MaxCreated
    /\ ctx = NoCtx
    /\ outcome = NoOutcome
    /\ scope = PrsScope
    /\ procs = [of |-> [p \in Procs |-> IdleHandler], concurrent |-> FALSE]

HandlerUnchanged ==
    UNCHANGED <<neutron, owned, gbp, next_id, ctx, outcome, scope, valVars,
                mapVars>>

\* The pair that execution p is at.
PairOf(p) == Head(procs.of[p].pairs)

\* After the pair: the next one, or the end of the loops.
NextPair(p, locals) ==
    [locals EXCEPT !.pairs = Tail(@), !.rows = <<>>,
                   !.pc = IF Len(locals.pairs) > 1 THEN "get_mapping"
                          ELSE "done"]

\* _handle_redirect_action, lines 1088-1136: the rule set, its groups and
\* its rules are read; the loops over the pairs begin.
HandleRedirectActionBegins(p) ==
    /\ procs.of[p].pc = "idle"
    /\ LET prs == gbp.policy_rule_sets["prs1"]
           consumers == ConsumingGroups(gbp, "prs1")
           providers == ProvidingGroups(gbp, "prs1")
           pairs == IF consumers = {} \/ providers = {}
                       \/ RedirectsOf(gbp, prs) = {}
                    THEN <<>> ELSE ChainPairs(consumers, providers)
       IN Step(p, [procs.of[p] EXCEPT
                      !.pairs = pairs,
                      !.pc = IF Len(pairs) = 0 THEN "done"
                             ELSE "get_mapping"])
    /\ UNCHANGED chains
    /\ HandlerUnchanged

\* lines 1137-1141: ptg_chain_map = self._get_ptg_servicechain_mapping(...)
GetsMapping(p) ==
    /\ procs.of[p].pc = "get_mapping"
    /\ \E rows \in Perms(_get_ptg_servicechain_mapping(
                             chains, PairOf(p).provider, PairOf(p).consumer)) :
          Step(p, [procs.of[p] EXCEPT !.rows = rows, !.pc = "delete"])
    /\ UNCHANGED chains
    /\ HandlerUnchanged

\* lines 1144-1147: one turn of "for ptg_chain in ptg_chain_map"
DeletesInstance(p) ==
    /\ procs.of[p].pc = "delete"
    /\ Len(procs.of[p].rows) > 0
    /\ LET w == _delete_servicechain_instance(
                    World, Head(procs.of[p].rows).servicechain_instance_id)
       IN /\ chains' = w.sc
          /\ Step(p, IF w.exc # ""
                     THEN [procs.of[p] EXCEPT !.pc = "raised", !.exc = w.exc]
                     ELSE [procs.of[p] EXCEPT !.rows = Tail(@)])
    /\ HandlerUnchanged

\* lines 1148-1151: sc_instance = self._create_servicechain_instance(...)
CreatesInstance(p) ==
    /\ procs.of[p].pc = "delete"
    /\ Len(procs.of[p].rows) = 0
    /\ LET w == _create_servicechain_instance(World, PairOf(p).provider,
                                              PairOf(p).consumer)
       IN /\ w.exc = ""
          /\ chains' = w.sc
          /\ Step(p, [procs.of[p] EXCEPT !.ret = w.ret, !.pc = "set_mapping"])
    /\ HandlerUnchanged

\* lines 1152-1155: self._set_ptg_servicechain_instance_mapping(...)
SetsMapping(p) ==
    /\ procs.of[p].pc = "set_mapping"
    /\ chains' = _set_ptg_servicechain_instance_mapping(
                     World, PairOf(p).provider, PairOf(p).consumer,
                     procs.of[p].ret).sc
    /\ Step(p, NextPair(p, procs.of[p]))
    /\ HandlerUnchanged

HandleRaceNext ==
    \/ \E p \in Procs : HandleRedirectActionBegins(p)
    \/ \E p \in Procs : GetsMapping(p)
    \/ \E p \in Procs : DeletesInstance(p)
    \/ \E p \in Procs : CreatesInstance(p)
    \/ \E p \in Procs : SetsMapping(p)

\* ---- two concurrent executions of _use_implicit_subnet ----

\* The group each execution allocates a subnet for.
GroupOf(p) == IF p = "A" THEN "ptg1" ELSE "ptg2"

IdleAllocator ==
    [pc |-> "idle", subnets |-> EmptyMap, cidr |-> 0, subnet_id |-> "",
     exc |-> ""]

\* A router, an L3 policy on it, an L2 policy on the first network and one on
\* the first or on the second network, a group without subnets on each L2
\* policy; the first candidate of the pool is in use on the router or free.
SubnetRaceInit ==
    /\ neutron \in
          {[networks |-> (NetX :> [tenant_id |-> "t1", shared |-> FALSE]
                          @@ NetY :> [tenant_id |-> "t1", shared |-> FALSE]),
            subnets |-> s,
            ports |-> EmptyMap,
            routers |-> (RtrX :> NewRouter("t1")),
            router_interfaces |-> {<<RtrX, x>> : x \in DOMAIN s}] :
              s \in {EmptyMap, SubX :> [network_id |-> NetX, cidr |-> 1]}}
    /\ owned = [networks |-> {}, subnets |-> {}, ports |-> {}, routers |-> {}]
    /\ \E network_id \in {NetX, NetY} :
          gbp = [NoPolicy EXCEPT
              !.l3_policies = "l3p1" :> [tenant_id |-> "t1",
                                         routers |-> <<RtrX>>,
                                         external_segments |-> {}],
              !.l2_policies =
                  "l2p1" :> [tenant_id |-> "t1", l3_policy_id |-> "l3p1",
                             network_id |-> NetX, shared |-> FALSE]
                  @@ "l2p2" :> [tenant_id |-> "t1", l3_policy_id |-> "l3p1",
                                network_id |-> network_id, shared |-> FALSE],
              !.policy_target_groups =
                  [p \in {"ptg1", "ptg2"} |->
                      [tenant_id |-> "t1",
                       l2_policy_id |-> IF p = "ptg1" THEN "l2p1" ELSE "l2p2",
                       subnets |-> <<>>,
                       provided_policy_rule_sets |-> {},
                       consumed_policy_rule_sets |-> {}]]]
    /\ chains = NoChains
    /\ next_id = 0
    /\ ctx = NoCtx
    /\ outcome = NoOutcome
    /\ scope = SubScope
    /\ procs = [of |-> [p \in Procs |-> IdleAllocator], concurrent |-> FALSE]

AllocatorUnchanged ==
    UNCHANGED <<ctx, outcome, scope, chains, valVars, mapVars>>

L2pOf(p) ==
    gbp.l2_policies[gbp.policy_target_groups[GroupOf(p)].l2_policy_id]

\* lines 917-932: the subnets in use under the L3 policy are read, once.
ReadsSubnetsInUse(p) ==
    /\ procs.of[p].pc = "idle"
    /\ LET ids == SubnetsInUse(World, L2pOf(p).l3_policy_id)
       IN Step(p, [procs.of[p] EXCEPT
                      !.subnets = [s \in ids |-> neutron.subnets[s]],
                      !.cidr = 1, !.pc = "scan"])
    /\ UNCHANGED <<neutron, owned, gbp, next_id>>
    /\ AllocatorUnchanged

\* lines 933-948 and 967-972: the next candidate is skipped when it overlaps
\* a subnet that was read; else the subnet is created, and a BadRequest
\* moves the scan on.  After the last candidate NoSubnetAvailable is raised.
CreatesSubnet(p) ==
    /\ procs.of[p].pc = "scan"
    /\ next_id < MaxCreated
    /\ LET me == procs.of[p]
           w1 == create_subnet(World, [network_id |-> L2pOf(p).network_id,
                                       cidr |-> me.cidr])
       IN IF me.cidr > PoolSize
          THEN /\ Step(p, [me EXCEPT !.pc = "raised",
                                     !.exc = "NoSubnetAvailable"])
               /\ UNCHANGED <<neutron, next_id>>
          ELSE IF ~_validate_subnet_overlap_for_l3p(
                       [subnets |-> me.subnets], DOMAIN me.subnets, me.cidr)
          THEN /\ Step(p, [me EXCEPT !.cidr = @ + 1])
               /\ UNCHANGED <<neutron, next_id>>
          ELSE IF w1.exc = "BadRequest"
          THEN /\ Step(p, [me EXCEPT !.cidr = @ + 1])
               /\ UNCHANGED <<neutron, next_id>>
          ELSE /\ Step(p, [me EXCEPT !.subnet_id = w1.ret, !.pc = "attach"])
               /\ neutron' = w1.n
               /\ next_id' = w1.next
    /\ UNCHANGED <<owned, gbp>>
    /\ AllocatorUnchanged

\* lines 950-955 and 967-971: the subnet is attached to the router of the L3
\* policy; a BadRequest moves the scan on.
AddsRouterInterface(p) ==
    /\ procs.of[p].pc = "attach"
    /\ LET me == procs.of[p]
           l3p == gbp.l3_policies[L2pOf(p).l3_policy_id]
           w2 == IF Len(l3p.routers) > 0
                 THEN add_router_interface(World, l3p.routers[1],
                                           me.subnet_id)
                 ELSE World
       IN IF w2.exc = "BadRequest"
          THEN /\ Step(p, [me EXCEPT !.cidr = @ + 1, !.subnet_id = "",
                                     !.pc = "scan"])
               /\ UNCHANGED neutron
          ELSE IF w2.exc # ""
          THEN /\ Step(p, [me EXCEPT !.pc = "raised", !.exc = w2.exc])
               /\ UNCHANGED neutron
          ELSE /\ Step(p, [me EXCEPT !.pc = "mark_owned"])
               /\ neutron' = w2.n
    /\ UNCHANGED <<owned, gbp, next_id>>
    /\ AllocatorUnchanged

\* lines 956-957: self._mark_subnet_owned(session, subnet_id)
MarksSubnetOwned(p) ==
    /\ procs.of[p].pc = "mark_owned"
    /\ owned' = _mark_subnet_owned(World, procs.of[p].subnet_id).o
    /\ Step(p, [procs.of[p] EXCEPT !.pc = "add_subnet"])
    /\ UNCHANGED <<neutron, gbp, next_id>>
    /\ AllocatorUnchanged

\* lines 958-959: context.add_subnet(subnet_id); return
AddsSubnet(p) ==
    /\ procs.of[p].pc = "add_subnet"
    /\ gbp' = [gbp EXCEPT !.policy_target_groups[GroupOf(p)].subnets =
                              Append(@, procs.of[p].subnet_id)]
    /\ Step(p, [procs.of[p] EXCEPT !.pc = "done"])
    /\ UNCHANGED <<neutron, owned, next_id>>
    /\ AllocatorUnchanged

SubnetRaceNext ==
    \/ \E p \in Procs : ReadsSubnetsInUse(p)
    \/ \E p \in Procs : CreatesSubnet(p)
    \/ \E p \in Procs : AddsRouterInterface(p)
    \/ \E p \in Procs : MarksSubnetOwned(p)
    \/ \E p \in Procs : AddsSubnet(p)

\* ---- hooks that work inside the transaction of the plugin ----

\* The ids external segments are created with.
TxnSegments == {"es3", "es4"}

\* The backend call of a hook that is made to fail: none, the creation or
\* deletion of the implicit L3 policy, or the Neutron call for the network.
Failures == {"", "l3_policy", "network"}

\* A tenant with an external and an internal network and an L3 policy, and
\* no L2 policy yet.
TxnScope ==
    [l3p |-> {}, l2p |-> L2PIds, ptg |-> {}, pt |-> {}, tenants |-> {"t1"},
     ptg_inputs |-> EmptyMap, rules |-> {}, rule_inputs |-> {},
     rule_sets |-> {}, classifiers |-> {}, es_inputs |-> {{}}]

TxnInit ==
    /\ neutron =
          [networks |-> (NetX :> [tenant_id |-> "t1", shared |-> FALSE,
                                  external |-> FALSE]
                         @@ "net_e" :> [tenant_id |-> "t1", shared |-> FALSE,
                                        external |-> TRUE]),
           subnets |-> (SubX :> [network_id |-> NetX, cidr |-> 1]
                        @@ "sub_e" :> [network_id |-> "net_e", cidr |-> 3]),
           ports |-> EmptyMap, routers |-> EmptyMap,
           router_interfaces |-> {}]
    /\ owned = [networks |-> {}, subnets |-> {}, ports |-> {}, routers |-> {}]
    /\ gbp = [NoPolicy EXCEPT
                 !.l3_policies = "l3p1" :> [tenant_id |-> "t1",
                                            routers |-> <<>>,
                                            external_segments |-> {},
                                            implicit |-> FALSE]]
    /\ chains = NoChains
    /\ next_id = 0
    /\ ctx = NoCtx
    /\ outcome = NoOutcome
    /\ scope = TxnScope /\ procs = NoProcs

\* The transaction the plugin runs a precommit hook in: when the hook has
\* left w without an exception what it did is committed, and when it raised
\* the transaction is rolled back and nothing of what it did stays.
TransactionKeepsWork(c, w) ==
    /\ neutron' = w.n
    /\ owned' = w.o
    /\ gbp' = w.g
    /\ next_id' = w.next
    /\ outcome' = [status |-> IF w.exc = "" THEN "accepted" ELSE "rejected",
                   exc |-> w.exc, op |-> c.op, kind |-> c.kind,
                   gone |-> {}, request |-> c]
    /\ ctx' = NoCtx
    /\ UNCHANGED <<chains, scope, procs, valVars, mapVars>>

Transaction(c, w) ==
    /\ IF w.exc = ""
       THEN /\ neutron' = w.n
            /\ owned' = w.o
            /\ gbp' = w.g
            /\ next_id' = w.next
       ELSE UNCHANGED <<neutron, owned, gbp, next_id>>
    /\ outcome' = [status |-> IF w.exc = "" THEN "accepted" ELSE "rejected",
                   exc |-> w.exc, op |-> c.op, kind |-> c.kind,
                   gone |-> {}, request |-> c]
    /\ ctx' = NoCtx
    /\ UNCHANGED <<chains, scope, procs, valVars, mapVars>>

\* The implicit L3 policy of a tenant.
DefaultL3p(tenant_id) == "default_" \o tenant_id

\* ImplicitPolicyBase._create_implicit_l3_policy: the L2 policy gets the
\* tenant's implicit L3 policy, which is created when the tenant has none.
_create_implicit_l3_policy(w, l2p_id, fails) ==
    IF fails
    THEN Raise(w, "GroupPolicyInternalError")
    ELSE LET tenant_id == w.g.l2_policies[l2p_id].tenant_id
             id == DefaultL3p(tenant_id)
             w1 == IF id \in DOMAIN w.g.l3_policies THEN w
                   ELSE [w EXCEPT !.g.l3_policies =
                            Put(@, id, [tenant_id |-> tenant_id,
                                        routers |-> <<>>,
                                        external_segments |-> {},
                                        implicit |-> TRUE])]
         IN [w1 EXCEPT !.g.l2_policies[l2p_id].l3_policy_id = id]

\* ImplicitPolicyBase._cleanup_l3_policy: an implicit L3 policy that no L2
\* policy uses any more is deleted.
_cleanup_l3_policy(w, l3p_id, fails) ==
    IF fails
    THEN Raise(w, "GroupPolicyInternalError")
    ELSE IF /\ l3p_id \in DOMAIN w.g.l3_policies
            /\ w.g.l3_policies[l3p_id].implicit
            /\ \A x \in DOMAIN w.g.l2_policies :
                  w.g.l2_policies[x].l3_policy_id # l3p_id
    THEN [w EXCEPT !.g.l3_policies = Remove(@, l3p_id)]
    ELSE w

\* CommonNeutronBase.create_l2_policy_precommit; the plugin has added the
\* row of the L2 policy in the transaction
CommonNeutronBase_create_l2_policy_precommit ==
    /\ ctx.op = "none"
    /\ \E id \in scope.l2p \ DOMAIN gbp.l2_policies,
          tenant_id \in scope.tenants,
          l3_policy_id \in {""} \cup DOMAIN gbp.l3_policies,
          network_id \in {"", NetX},
          fails \in Failures :
          LET current == [tenant_id |-> tenant_id,
                          l3_policy_id |-> l3_policy_id,
                          network_id |-> network_id, shared |-> FALSE]
              w0 == [World EXCEPT !.g.l2_policies = Put(@, id, current)]
              w1 == IF current.l3_policy_id = ""
                    THEN _create_implicit_l3_policy(w0, id,
                                                    fails = "l3_policy")
                    ELSE w0
              w2 == IF w1.exc # "" THEN w1
                    ELSE IF current.network_id = ""
                    THEN IF fails = "network"
                         THEN Raise(w1, "NeutronException")
                         ELSE _use_implicit_network(w1, id)
                    ELSE w1
          IN /\ network_id = "" => next_id < MaxCreated
             /\ Transaction([op |-> "create", kind |-> "l2_policy",
                             id |-> id, current |-> current,
                             fails |-> fails], w2)

\* CommonNeutronBase.delete_l2_policy_precommit; the plugin deletes the row
\* of the L2 policy after the hook
CommonNeutronBase_delete_l2_policy_precommit ==
    /\ ctx.op = "none"
    /\ \E id \in DOMAIN gbp.l2_policies, fails \in Failures :
          LET l2p_db == gbp.l2_policies[id]
              w1 == IF l2p_db.network_id # ""
                    THEN LET w0 == [World EXCEPT
                                       !.g.l2_policies[id].network_id = ""]
                         IN IF fails = "network"
                            THEN Raise(w0, "NeutronException")
                            ELSE _cleanup_network(w0, l2p_db.network_id)
                    ELSE World
              w2 == IF w1.exc # "" THEN w1
                    ELSE IF l2p_db.l3_policy_id # ""
                    THEN _cleanup_l3_policy(
                             [w1 EXCEPT !.g.l2_policies[id].l3_policy_id = ""],
                             l2p_db.l3_policy_id, fails = "l3_policy")
                    ELSE w1
              w3 == IF w2.exc # "" THEN w2
                    ELSE [w2 EXCEPT !.g.l2_policies = Remove(@, id)]
          IN Transaction([op |-> "delete", kind |-> "l2_policy", id |-> id,
                          current |-> l2p_db, fails |-> fails], w3)

\* create_external_segment_precommit; the plugin has added the row of the
\* external segment in the transaction
create_external_segment_precommit ==
    /\ ctx.op = "none"
    /\ \E id \in TxnSegments \ DOMAIN gbp.external_segments,
          subnet_id \in {"", "sub_none"} \cup DOMAIN neutron.subnets :
          LET current == [subnet_id |-> subnet_id,
                          port_address_translation |-> FALSE,
                          external_routes |-> {}, cidr |-> 0]
              w0 == [World EXCEPT !.g.external_segments = Put(@, id, current)]
              w1 == IF subnet_id # ""
                    THEN IF subnet_id \notin DOMAIN w0.n.subnets
                         THEN Raise(w0, "SubnetNotFound")
                         ELSE LET subnet == w0.n.subnets[subnet_id]
                              IN IF ~w0.n.networks[subnet.network_id].external
                                 THEN Raise(w0, "InvalidSubnetForES")
                                 ELSE [w0 EXCEPT
                                          !.g.external_segments[id].cidr =
                                              subnet.cidr]
                    ELSE Raise(w0, "ImplicitSubnetNotSupported")
          IN Transaction([op |-> "create", kind |-> "external_segment",
                          id |-> id, current |-> current, fails |-> ""], w1)

\* The plugin's delete of an external segment; the driver's hooks do nothing
delete_external_segment_precommit ==
    /\ ctx.op = "none"
    /\ \E id \in DOMAIN gbp.external_segments :
          Transaction([op |-> "delete", kind |-> "external_segment",
                       id |-> id, current |-> gbp.external_segments[id],
                       fails |-> ""],
                      [World EXCEPT !.g.external_segments = Remove(@, id)])

TxnNext ==
    \/ CommonNeutronBase_create_l2_policy_precommit
    \/ CommonNeutronBase_delete_l2_policy_precommit
    \/ create_external_segment_precommit
    \/ delete_external_segment_precommit

RmdNext ==
    \/ create_l3_policy_precommit
    \/ create_l3_policy_postcommit
    \/ delete_l3_policy_precommit
    \/ delete_l3_policy_postcommit
    \/ create_l2_policy_precommit
    \/ create_l2_policy_postcommit
    \/ delete_l2_policy_precommit
    \/ delete_l2_policy_postcommit
    \/ create_policy_target_group_precommit
    \/ create_policy_target_group_postcommit
    \/ delete_policy_target_group_precommit
    \/ delete_policy_target_group_postcommit
    \/ create_policy_target_precommit
    \/ create_policy_target_postcommit
    \/ delete_policy_target_precommit
    \/ delete_policy_target_postcommit

-----------------------------------------------------------------------------
(* Specifications *)

ValIdle ==
    /\ desired = EmptyMap /\ aim_store = EmptyMap /\ map_broken = {}
    /\ unrepairable = {} /\ ndrift = 0 /\ v_pc = "idle" /\ repair = FALSE
    /\ result = VALIDATION_PASSED /\ session = [aim |-> EmptyMap, map |-> {}]
    /\ pending = {} /\ expected = EmptyMap /\ classes_left = {}
    /\ cur = NoClass /\ actual_resources = {} /\ missing_done = {}
    /\ ops = {} /\ run_info = NoInfo /\ last = NoRun

MapIdle ==
    /\ apic_names = EmptyMap /\ strategy = NAMING_STRATEGY_UUID
    /\ min_suffix = DefaultMinSuffix /\ db_filters = TRUE /\ ncalls = 0
    /\ call = NoCall /\ first = EmptyMap /\ remapped = EmptyMap
    /\ md = NoMd

RmdIdle ==
    /\ neutron = [networks |-> EmptyMap, subnets |-> EmptyMap,
                  ports |-> EmptyMap, routers |-> EmptyMap,
                  router_interfaces |-> {}]
    /\ owned = [networks |-> {}, subnets |-> {}, ports |-> {}, routers |-> {}]
    /\ gbp = NoPolicy
    /\ chains = NoChains
    /\ next_id = 0 /\ ctx = NoCtx /\ outcome = NoOutcome
    /\ scope = RmdScope /\ procs = NoProcs

\* The state after construction, one component at work.
InitVal == ValInit /\ MapIdle /\ RmdIdle

InitMap == MapInit /\ ValIdle /\ RmdIdle

InitRmd == RmdInit /\ ValIdle /\ MapIdle

SpecVal == InitVal /\ [][ValNext]_vars

SpecMap == InitMap /\ [][MapNext]_vars

InitTxn == TxnInit /\ ValIdle /\ MapIdle

SpecTxn == InitTxn /\ [][TxnNext]_vars

InitGrow == GrowInit /\ ValIdle /\ RmdIdle

SpecGrow == InitGrow /\ [][GrowNext]_vars

InitMd == MapIdle /\ ValIdle /\ RmdIdle

SpecMd == InitMd /\ [][MdNext]_vars

\* The network hooks: the name mapper as constructed, nothing else at work.
InitNet ==
    /\ MapInit /\ ValIdle
    /\ neutron = [networks |-> EmptyMap, subnets |-> EmptyMap,
                  ports |-> EmptyMap, routers |-> EmptyMap,
                  router_interfaces |-> {}]
    /\ owned = [networks |-> {}, subnets |-> {}, ports |-> {}, routers |-> {}]
    /\ gbp = NoPolicy
    /\ chains = NoChains
    /\ next_id = 0 /\ ctx = NoCtx /\ outcome = NoOutcome
    /\ scope = RmdScope /\ procs = NoProcs

SpecNet == InitNet /\ [][NetNext]_vars

-----------------------------------------------------------------------------
(* The address of a network service policy: resource_mapping.py lines        *)
(* 289-331 and 1261-1307.  Addresses are numbers of one subnet, SubX; its    *)
(* allocation pools are a list of records start, end, as Neutron returns     *)
(* them, and its allocated addresses a set.  The availability ranges are     *)
(* the runs of addresses of a pool that are not allocated.  The table of     *)
(* reserved addresses is owned.ipaddress_mappings.                           *)

MaxAddress == 5
MaxPools == 2

Addresses == 1..MaxAddress

PtgX == "ptg1"

\* The addresses the pools cover.
Allocatable(pools) == UNION {p.start..p.end : p \in Range(pools)}

NoInvertedPool(pools) == \A p \in Range(pools) : p.start <= p.end

NoAddressInTwoPools(pools) ==
    \A i, j \in DOMAIN pools :
        i # j => (pools[i].start..pools[i].end)
                     \cap (pools[j].start..pools[j].end) = {}

WithinSubnet(pools) ==
    \A p \in Range(pools) : p.start \in Addresses /\ p.end \in Addresses

ValidPools(pools) ==
    NoInvertedPool(pools) /\ NoAddressInTwoPools(pools) /\ WithinSubnet(pools)

\* models_v2.IPAvailabilityRange joined with IPAllocationPool: per pool the
\* maximal runs of addresses that are not allocated.
AvailabilityRanges(pools, allocated) ==
    {r \in [first_ip : Addresses, last_ip : Addresses] :
        /\ r.first_ip <= r.last_ip
        /\ \E p \in Range(pools) :
              /\ (r.first_ip..r.last_ip) \subseteq (p.start..p.end) \ allocated
              /\ r.first_ip - 1 \notin (p.start..p.end) \ allocated
              /\ r.last_ip + 1 \notin (p.start..p.end) \ allocated}

\* Lines 1297-1307: last_ip of the first row the query gives for the subnet;
\* the query has no order, so this is the set of the values it may return,
\* empty when there is no row (None).
_get_last_free_ip(subnet) ==
    {r.last_ip : r \in AvailabilityRanges(subnet.allocation_pools,
                                          subnet.allocated)}

\* The index of the last pool that ends at the address, 0 if none.
LastPoolEndingAt(pools, ip_address) ==
    LET hits == {i \in DOMAIN pools : pools[i].end = ip_address}
    IN IF hits = {} THEN 0 ELSE CHOOSE i \in hits : \A j \in hits : j <= i

\* The index of the first pool that ends one before the address, 0 if none.
FirstPoolEndingBefore(pools, ip_address) ==
    LET hits == {i \in DOMAIN pools : pools[i].end + 1 = ip_address}
    IN IF hits = {} THEN 0 ELSE CHOOSE i \in hits : \A j \in hits : i <= j

\* Lines 1283-1295: the pools are gone through from the last; the first that
\* ends at the address gets the address before it as its end and the subnet
\* is updated.  When no pool ends at the address nothing is updated.
_remove_ip_from_allocation_pool(pools, ip_address) ==
    LET i == LastPoolEndingAt(pools, ip_address)
    IN IF i = 0
       THEN [pools |-> pools, updates |-> FALSE]
       ELSE [pools |-> [pools EXCEPT ![i].end = ip_address - 1],
             updates |-> TRUE]

\* Lines 1261-1281: the first pool that ends one before the address gets the
\* address as its end; when there is none a pool of the one address is
\* appended.  The subnet is updated in both cases.
_restore_ip_to_allocation_pool(pools, ip_address) ==
    LET i == FirstPoolEndingBefore(pools, ip_address)
    IN IF i = 0
       THEN Append(pools, [start |-> ip_address, end |-> ip_address])
       ELSE [pools EXCEPT ![i].end = ip_address]

NspUnchanged ==
    UNCHANGED <<valVars, mapVars, gbp, next_id, ctx, scope, chains, procs>>

\* Lines 289-312.  Neutron's update_subnet is outside the driver: what it
\* does with pools that are not valid, store them or raise, is either.  An
\* exception of it goes out of the hook before the mapping is set.
_handle_network_service_policy(ptg_id, subnet_id) ==
    /\ ptg_id \notin DOMAIN owned.ipaddress_mappings
    /\ LET subnet == neutron.subnets[subnet_id]
           pools == subnet.allocation_pools
           before == [op |-> "_handle_network_service_policy",
                      original |-> pools, before |-> pools]
       IN IF _get_last_free_ip(subnet) = {}
          THEN /\ outcome' = before @@ [status |-> "no_ip", ip |-> 0]
               /\ UNCHANGED <<neutron, owned>>
          ELSE \E free_ip \in _get_last_free_ip(subnet), accepts \in BOOLEAN :
                  LET r == _remove_ip_from_allocation_pool(pools, free_ip)
                  IN IF r.updates /\ ~ValidPools(r.pools) /\ ~accepts
                     THEN /\ outcome' = before @@ [status |-> "raised",
                                                   ip |-> free_ip]
                          /\ UNCHANGED <<neutron, owned>>
                     ELSE /\ neutron' = [neutron EXCEPT
                                 !.subnets[subnet_id].allocation_pools =
                                     r.pools]
                          /\ owned' = [owned EXCEPT !.ipaddress_mappings =
                                          Put(@, ptg_id, free_ip)]
                          /\ outcome' = before @@ [status |-> "reserved",
                                                   ip |-> free_ip]
    /\ NspUnchanged

\* Lines 318-331.  The address of the mapping is restored to the pools of
\* the subnet and the mapping is deleted; an exception of update_subnet goes
\* out before the mapping is deleted.
_cleanup_network_service_policy(ptg_id, subnet_id) ==
    /\ ptg_id \in DOMAIN owned.ipaddress_mappings
    /\ \E accepts \in BOOLEAN :
          LET ipaddress == owned.ipaddress_mappings[ptg_id]
              pools == neutron.subnets[subnet_id].allocation_pools
              restored == _restore_ip_to_allocation_pool(pools, ipaddress)
              before == [op |-> "_cleanup_network_service_policy",
                         original |-> outcome.original, before |-> pools,
                         ip |-> ipaddress]
          IN IF ~ValidPools(restored) /\ ~accepts
             THEN /\ outcome' = before @@ [status |-> "raised"]
                  /\ UNCHANGED <<neutron, owned>>
             ELSE /\ neutron' = [neutron EXCEPT
                         !.subnets[subnet_id].allocation_pools = restored]
                  /\ owned' = [owned EXCEPT !.ipaddress_mappings =
                                  Remove(@, ptg_id)]
                  /\ outcome' = before @@ [status |-> "released"]
    /\ NspUnchanged

NspNext ==
    \/ _handle_network_service_policy(PtgX, SubX)
    \/ _cleanup_network_service_policy(PtgX, SubX)

\* Lists of at most MaxPools pools that Neutron accepts.
PoolLists ==
    {pools \in UNION {[1..n -> [start : Addresses, end : Addresses]] :
                          n \in 1..MaxPools} : ValidPools(pools)}

\* One subnet with valid pools, some of its addresses allocated to ports,
\* and no address reserved.
InitNsp ==
    /\ ValIdle /\ MapIdle
    /\ \E pools \in PoolLists :
       \E allocated \in SUBSET Allocatable(pools) :
           neutron = [networks |-> EmptyMap,
                      subnets |-> [s \in {SubX} |->
                                      [allocation_pools |-> pools,
                                       allocated |-> allocated]],
                      ports |-> EmptyMap, routers |-> EmptyMap,
                      router_interfaces |-> {}]
    /\ owned = [networks |-> {}, subnets |-> {}, ports |-> {}, routers |-> {},
                ipaddress_mappings |-> EmptyMap]
    /\ gbp = NoPolicy
    /\ chains = NoChains
    /\ next_id = 0 /\ ctx = NoCtx /\ outcome = NoOutcome
    /\ scope = RmdScope /\ procs = NoProcs

SpecNsp == InitNsp /\ [][NspNext]_vars

SpecRmd == InitRmd /\ [][RmdNext]_vars

InitSub == SubInit /\ ValIdle /\ MapIdle

SubNext ==
    \/ create_l3_policy_precommit
    \/ create_l3_policy_postcommit
    \/ delete_l3_policy_precommit
    \/ delete_l3_policy_postcommit
    \/ create_l2_policy_precommit
    \/ create_l2_policy_postcommit
    \/ delete_l2_policy_precommit
    \/ delete_l2_policy_postcommit
    \/ create_policy_target_group_precommit
    \/ create_policy_target_group_postcommit
    \/ delete_policy_target_group_precommit
    \/ delete_policy_target_group_postcommit

SpecSub == InitSub /\ [][SubNext]_vars

InitPrs == PrsInit /\ ValIdle /\ MapIdle

PrsNext ==
    \/ update_policy_target_group_precommit
    \/ update_policy_target_group_postcommit
    \/ delete_policy_target_group_precommit
    \/ delete_policy_target_group_postcommit
    \/ create_policy_rule_precommit
    \/ create_policy_rule_postcommit
    \/ update_policy_rule_precommit
    \/ update_policy_rule_postcommit
    \/ update_policy_classifier_postcommit
    \/ create_policy_rule_set_precommit
    \/ create_policy_rule_set_postcommit
    \/ update_policy_rule_set_precommit
    \/ update_policy_rule_set_postcommit
    \/ delete_policy_rule_set_precommit
    \/ delete_policy_rule_set_postcommit

SpecPrs == InitPrs /\ [][PrsNext]_vars

InitPair == PairInit /\ ValIdle /\ MapIdle

SpecPair == InitPair /\ [][PrsNext]_vars

InitL3 == L3Init /\ ValIdle /\ MapIdle

L3Next ==
    \/ create_l3_policy_precommit
    \/ create_l3_policy_postcommit
    \/ update_l3_policy_precommit
    \/ update_l3_policy_postcommit
    \/ delete_l3_policy_precommit
    \/ delete_l3_policy_postcommit
    \/ update_external_segment_precommit
    \/ update_external_segment_postcommit
    \/ update_l2_policy_precommit
    \/ CommonNeutronBase_update_l2_policy_precommit
    \/ update_l2_policy_postcommit
    \/ update_policy_target_group_precommit
    \/ update_policy_target_group_postcommit
    \/ update_policy_target_precommit
    \/ update_policy_target_postcommit

SpecL3 == InitL3 /\ [][L3Next]_vars

InitEnf == EnfInit /\ ValIdle /\ MapIdle

EnfNext ==
    \/ create_policy_rule_precommit
    \/ create_policy_rule_postcommit
    \/ create_policy_rule_set_precommit
    \/ create_policy_rule_set_postcommit
    \/ update_policy_rule_set_precommit
    \/ update_policy_rule_set_postcommit
    \/ get_enforced_prs_rules

SpecEnf == InitEnf /\ [][EnfNext]_vars

InitEp == EpInit /\ ValIdle /\ MapIdle

EpNext ==
    \/ update_external_policy_precommit
    \/ update_external_policy_postcommit
    \/ delete_external_policy_precommit
    \/ delete_external_policy_postcommit
    \/ update_policy_target_group_precommit
    \/ update_policy_target_group_postcommit

SpecEp == InitEp /\ [][EpNext]_vars

InitHandleRace == HandleRaceInit /\ ValIdle /\ MapIdle

SpecHandleRace == InitHandleRace /\ [][HandleRaceNext]_vars

InitSubnetRace == SubnetRaceInit /\ ValIdle /\ MapIdle

SpecSubnetRace == InitSubnetRace /\ [][SubnetRaceNext]_vars

-----------------------------------------------------------------------------
(* Claims about the APIC name mapper *)

CallKey == <<call'.id, call'.type, call'.prefix>>

\* C6 (as amended): after any sequence of name mapper operations, a mapper
\* call with existing=False and without remap, for an id, name type and
\* prefix for which an existing=False call was made since the id was last
\* remapped or deleted, returns the name that first call returned, whatever
\* resource name it is given.
C6_SameNameAsFirstMapping ==
    [][(/\ call'.op = "mapper"
        /\ call'.kind # "existing"
        /\ ~call'.remap
        /\ CallKey \in DOMAIN first)
       => call'.value = first[CallKey]]_vars

\* A second call for the same id, name type and prefix found the persisted
\* name and returned what the first call returned.
C6_Witness ==
    /\ ncalls = 2
    /\ call.kind = "saved"
    /\ <<call.id, call.type, call.prefix>> \in DOMAIN first
    /\ call.value = first[<<call.id, call.type, call.prefix>>]
    /\ apic_names[<<call.id, call.type>>].human = LongName

\* C6 as stated: every mapper call without remap, existing=True included,
\* returns the name the first call returned.
C6_Original ==
    [][(/\ call'.op = "mapper"
        /\ ~call'.remap
        /\ CallKey \in DOMAIN first)
       => call'.value = first[CallKey]]_vars

\* The records of other ids that have the name type and the resource name of
\* the record just computed.
SameNameOthers ==
    {k \in DOMAIN apic_names' :
        /\ k[1] # call'.id
        /\ k[2] = call'.type
        /\ apic_names'[k].human = apic_names'[<<call'.id, call'.type>>].human}

NamedComputation ==
    /\ strategy = NAMING_STRATEGY_UUID
    /\ call'.op = "mapper"
    /\ call'.kind = "computed"
    /\ apic_names'[<<call'.id, call'.type>>].human # NoName

C8_NamesWithinLimit ==
    /\ \A k \in DOMAIN apic_names :
          Len(apic_names[k].name) <= MAX_APIC_NAME_LENGTH
    /\ call.op = "mapper" => Len(call.value) <= MAX_APIC_NAME_LENGTH

-----------------------------------------------------------------------------
(* Claims about the validation/repair engine *)

RunStep == v_pc # "idle"

RunEnds == v_pc # "idle" /\ v_pc' = "idle"

\* C1: from a state with exactly one drift (one missing, one unexpected
\* non-monitored or one incorrect non-monitored resource, and no mapping
\* problem) validate(repair=True) returns 'repaired', and a validate(repair=
\* False) that follows it immediately returns 'passed'.
C1_RepairThenValidatePasses ==
    /\ (last.valid /\ last.repair /\ last.single)
          => last.result = VALIDATION_REPAIRED
    /\ (last.valid /\ last.follows) => last.result = VALIDATION_PASSED

C1_Witness ==
    /\ last.valid /\ last.follows /\ ~last.repair
    /\ last.result = VALIDATION_PASSED

\* C2: once the result of a run is 'failed' it stays 'failed' up to the
\* return, and no write is issued for a problem met afterwards, also when
\* repairing.
C2_FailedIsAbsorbing ==
    [][(RunStep /\ result = VALIDATION_FAILED) =>
          /\ result' = VALIDATION_FAILED
          /\ ops' = ops
          /\ session' = session
          /\ (v_pc' = "idle" => last'.result = VALIDATION_FAILED)]_vars

\* A repairable mapping problem was met after the failure of a repairing run
\* and left alone.
C2_Witness ==
    /\ v_pc = "mapping" /\ repair /\ result = VALIDATION_FAILED
    /\ pending = {} /\ session.map # {}

\* C3: validate() commits exactly when the result is 'repaired'; with any
\* other result, 'failed' included, the committed stores are what they were
\* when the run began, whatever repairs the run had applied.
C3_CommitIffRepaired ==
    [][RunStep =>
          IF v_pc' = "idle" /\ result = VALIDATION_REPAIRED
          THEN aim_store' = session.aim /\ map_broken' = session.map
          ELSE aim_store' = aim_store /\ map_broken' = map_broken]_vars

\* A repairing run that applied a repair and then failed has returned.
C3_Witness ==
    /\ last.valid /\ last.repair /\ last.result = VALIDATION_FAILED
    /\ ops # {} /\ map_broken # {}

\* C4: validate(repair=False) issues no write, leaves the stores alone and
\* returns 'failed' if the state it started from had a problem, 'passed'
\* otherwise.
C4_ValidateOnlyReads ==
    [][(RunStep /\ ~repair) =>
          /\ aim_store' = aim_store /\ map_broken' = map_broken
          /\ ops' = {}
          /\ session' = session
          /\ result' # VALIDATION_REPAIRED
          /\ (v_pc' = "idle" =>
                last'.result = IF run_info.problems > 0
                               THEN VALIDATION_FAILED
                               ELSE VALIDATION_PASSED)]_vars

C4_Witness ==
    /\ last.valid /\ ~last.repair /\ last.result = VALIDATION_FAILED
    /\ Problems(aim_store, desired) # {}

\* C5: an unexpected actual resource that is externally managed (monitored,
\* or without the monitored attribute) is left in place by every step of a
\* run and does not change the result; an unexpected resource with
\* monitored=False is deleted when repairing and makes the result 'failed'
\* when not repairing.
C5_UnexpectedResources ==
    [][RunStep =>
          /\ \A k \in DOMAIN aim_store \ DOMAIN desired :
                ExternallyManaged(aim_store[k]) =>
                   /\ k \in DOMAIN aim_store' /\ aim_store'[k] = aim_store[k]
                   /\ k \in DOMAIN session'.aim
          /\ \A k \in actual_resources \ actual_resources' :
                k \notin DOMAIN desired =>
                   IF ExternallyManaged(session.aim[k])
                   THEN result' = result /\ session' = session /\ ops' = ops
                   ELSE IF repair
                        THEN /\ k \notin DOMAIN session'.aim
                             /\ <<"delete", k>> \in ops'
                             /\ result' = VALIDATION_REPAIRED
                        ELSE /\ result' = VALIDATION_FAILED
                             /\ session' = session]_vars

\* A repairing run deleted an unexpected resource and kept an unexpected
\* resource that has no monitored attribute.
C5_Witness ==
    /\ last.valid /\ last.repair /\ last.result = VALIDATION_REPAIRED
    /\ \E k \in Keys : <<"delete", k>> \in ops
    /\ \E h \in DOMAIN aim_store \ DOMAIN desired :
          "monitored" \notin DOMAIN aim_store[h]

-----------------------------------------------------------------------------
(* Resource mapping driver: claims                                          *)

\* The lower-level resources a policy object refers to: the port of a policy
\* target, the subnets of a policy target group, the network of an L2 policy,
\* the routers of an L3 policy.
Dependents(kind, current) ==
    [t \in ResourceTables |->
        IF kind = "policy_target" /\ t = "ports"
        THEN {current.port_id} \ {""}
        ELSE IF kind = "policy_target_group" /\ t = "subnets"
        THEN Range(current.subnets)
        ELSE IF kind = "l2_policy" /\ t = "networks"
        THEN {current.network_id} \ {""}
        ELSE IF kind = "l3_policy" /\ t = "routers"
        THEN Range(current.routers)
        ELSE {}]

\* Each resource the object of the pending hook refers to, if Neutron has it,
\* is gone after the step if and only if it was marked owned before.
GoneIffOwned ==
    \A t \in ResourceTables :
       \A r \in Dependents(ctx.kind, ctx.current)[t] \cap DOMAIN neutron[t] :
          r \notin DOMAIN neutron'[t] <=> r \in owned[t]

L3pOf(g, ptg_id) ==
    g.l2_policies[g.policy_target_groups[ptg_id].l2_policy_id].l3_policy_id

\* create_policy_target_group_postcommit runs for a group without subnets.
ImplicitSubnetStep ==
    /\ ctx.op = "create" /\ ctx.kind = "policy_target_group"
    /\ Len(ctx.current.subnets) = 0

\* The subnets _use_implicit_subnet allocated that are attached to groups
\* under one L3 policy have pairwise different CIDRs.
ImplicitSubnetsDisjoint ==
    \A p, q \in DOMAIN gbp.policy_target_groups :
       L3pOf(gbp, p) = L3pOf(gbp, q) =>
          \A s \in Range(gbp.policy_target_groups[p].subnets)
                      \cap owned.subnets,
             t \in Range(gbp.policy_target_groups[q].subnets)
                      \cap owned.subnets :
             s # t => neutron.subnets[s].cidr # neutron.subnets[t].cidr

\* C11: the subnet an implicit allocation attaches to a policy target group
\* has a CIDR that differs from (subnets of one pool and one prefix length
\* overlap only when equal) the CIDR of every subnet attached before to a
\* policy target group under the same L3 policy, and after every step the
\* implicitly allocated subnets attached to groups under one L3 policy have
\* pairwise different CIDRs.
C11_ImplicitSubnetsDisjoint ==
    [][/\ ImplicitSubnetStep /\ outcome'.status = "done" =>
             LET s == gbp'.policy_target_groups[ctx.id].subnets[1]
             IN /\ s \in owned'.subnets \ DOMAIN neutron.subnets
                /\ \A x \in SubnetsInUse(World, L3pOf(gbp, ctx.id)) :
                      neutron.subnets[x].cidr # neutron'.subnets[s].cidr
       /\ ImplicitSubnetsDisjoint']_vars

\* Two groups on different networks under one L3 policy have implicit
\* subnets.
C11_Witness ==
    /\ outcome.op = "create" /\ outcome.kind = "policy_target_group"
    /\ outcome.status = "done"
    /\ \E p, q \in DOMAIN gbp.policy_target_groups :
          /\ p # q /\ L3pOf(gbp, p) = L3pOf(gbp, q)
          /\ \E s \in Range(gbp.policy_target_groups[p].subnets)
                         \cap owned.subnets,
                t \in Range(gbp.policy_target_groups[q].subnets)
                         \cap owned.subnets :
                neutron.subnets[s].network_id # neutron.subnets[t].network_id

\* The candidate cidr of the pool overlaps no subnet in use under the L3
\* policy of the group, and Neutron creates a subnet with it on the group's
\* network and attaches the subnet to the L3 policy's router.
Acceptable(w, ptg_id, cidr) ==
    LET l2p == w.g.l2_policies[w.g.policy_target_groups[ptg_id].l2_policy_id]
        l3p == w.g.l3_policies[l2p.l3_policy_id]
        w1 == create_subnet(w, [network_id |-> l2p.network_id,
                                cidr |-> cidr])
    IN /\ \A x \in SubnetsInUse(w, l2p.l3_policy_id) :
             w.n.subnets[x].cidr # cidr
       /\ w1.exc = ""
       /\ Len(l3p.routers) > 0 =>
             add_router_interface(w1, l3p.routers[1], w1.ret).exc = ""

-----------------------------------------------------------------------------
(* Claims about policy rules, policy rule sets and service chains *)

\* The redirect actions among the actions a rule names.
RedirectsIn(rule) ==
    {a \in rule.policy_actions \cap DOMAIN gbp.policy_actions :
        gbp.policy_actions[a].action_type = "redirect"}

\* The request that the precommit hook of a policy rule has just judged.
RuleJudged ==
    IF outcome'.status = "accepted" THEN ctx'.current
    ELSE outcome'.request.current

RulePrecommitStep ==
    /\ ctx.op = "none"
    /\ outcome'.kind = "policy_rule"
    /\ outcome'.status \in {"accepted", "rejected"}

\* C13: create_policy_rule_precommit and update_policy_rule_precommit raise
\* MultipleRedirectActionsNotSupportedForRule when more than one of the
\* rule's policy actions is a redirect action, and accept the rule when at
\* most one is.
C13_OneRedirectPerRule ==
    [][RulePrecommitStep =>
          IF Cardinality(RedirectsIn(RuleJudged)) > 1
          THEN /\ outcome'.status = "rejected"
               /\ outcome'.exc = "MultipleRedirectActionsNotSupportedForRule"
               /\ gbp' = gbp
          ELSE /\ outcome'.status = "accepted"
               /\ gbp'.policy_rules[ctx'.id] = RuleJudged]_vars

\* A rule with two redirect actions has been rejected on update, after a
\* rule with one redirect action and a rule with none were accepted.
C13_Witness ==
    /\ outcome.kind = "policy_rule" /\ outcome.op = "update"
    /\ outcome.status = "rejected"
    /\ Cardinality(RedirectsIn(outcome.request.current)) = 2
    /\ \E r \in DOMAIN gbp.policy_rules :
          Cardinality(RedirectsIn(gbp.policy_rules[r])) = 1
    /\ \E r \in DOMAIN gbp.policy_rules :
          Cardinality(RedirectsIn(gbp.policy_rules[r])) = 0

\* The request that the precommit hook of a policy rule set has just judged.
RuleSetJudged ==
    IF outcome'.status = "accepted" THEN ctx'.current
    ELSE outcome'.request.current

RuleSetPrecommitStep ==
    /\ ctx.op = "none"
    /\ outcome'.kind = "policy_rule_set"
    /\ outcome'.op \in {"create", "update"}
    /\ outcome'.status \in {"accepted", "rejected"}

\* The redirect actions of the rules of a rule set, one entry for each rule
\* and action.
OwnRedirects(prs) ==
    {x \in (prs.policy_rules \cap DOMAIN gbp.policy_rules)
              \X DOMAIN gbp.policy_actions :
        x[2] \in RedirectsIn(gbp.policy_rules[x[1]])}

\* The redirect actions active for a rule set: those of its own rules and
\* those of the rules of its parent.
TransitiveRedirects(prs) ==
    {x[2] : x \in OwnRedirects(prs)}
    \cup (IF prs.parent_id = "" THEN {}
          ELSE {x[2] : x \in OwnRedirects(gbp.policy_rule_sets[prs.parent_id])})

\* C14: create_policy_rule_set_precommit and update_policy_rule_set_precommit
\* raise MultipleRedirectActionsNotSupportedForPRS exactly when the rules of
\* the rule set itself carry more than one redirect action, an action that
\* two rules name counted twice; the rules of the parent are not counted.
C14_OwnRedirectsOnly ==
    [][RuleSetPrecommitStep =>
          IF Cardinality(OwnRedirects(RuleSetJudged)) > 1
          THEN /\ outcome'.status = "rejected"
               /\ outcome'.exc = "MultipleRedirectActionsNotSupportedForPRS"
               /\ gbp' = gbp
          ELSE outcome'.status = "accepted"]_vars

\* An update has given a redirect rule to a rule set whose parent has a rule
\* with another redirect action, and has been accepted.
C14_Witness ==
    /\ ctx.kind = "policy_rule_set" /\ ctx.op = "update"
    /\ outcome.status = "accepted"
    /\ ctx.current.parent_id # ""
    /\ Cardinality(OwnRedirects(ctx.current)) = 1
    /\ Cardinality(OwnRedirects(ctx.original)) = 0
    /\ Cardinality(TransitiveRedirects(ctx.current)) = 2

\* C14 as stated: the hooks raise whenever the redirect actions of the rule
\* set and of its parent number more than one.
C14_Original ==
    [][(RuleSetPrecommitStep
        /\ Cardinality(TransitiveRedirects(RuleSetJudged)) > 1)
          => /\ outcome'.status = "rejected"
             /\ outcome'.exc = "MultipleRedirectActionsNotSupportedForPRS"]_vars

\* The rules among ids whose classifier is the classifier of a rule of the
\* parent of the rule set; all of ids for a rule set without a parent.
EnforcedAmong(prs, ids) ==
    IF prs.parent_id = "" THEN ids
    ELSE {r \in ids :
             \E p \in gbp.policy_rule_sets[prs.parent_id].policy_rules :
                gbp.policy_rules[p].policy_classifier_id
                   = gbp.policy_rules[r].policy_classifier_id}

\* C15: _get_enforced_prs_rules returns, for a rule set with a parent, exactly
\* the rules of the rule set (or of the given subset) whose classifier is the
\* classifier of some rule of the parent, and for a rule set without a parent
\* all its rules (or the given subset).
C15_EnforcedRules ==
    outcome.op = "_get_enforced_prs_rules" =>
        LET prs == gbp.policy_rule_sets[outcome.request.id]
            subset == outcome.request.subset
        IN outcome.ret = EnforcedAmong(prs, IF subset.given THEN subset.ids
                                            ELSE prs.policy_rules)

\* The rule sets which the first group provides and the second consumes, with
\* a rule that has a redirect action and that the parent of the rule set, if
\* it has one with a redirect rule, lets through.
RedirectRuleSets(provider, consumer) ==
    {s \in DOMAIN gbp.policy_rule_sets :
        /\ s \in gbp.policy_target_groups[provider].provided_policy_rule_sets
        /\ s \in gbp.policy_target_groups[consumer].consumed_policy_rule_sets
        /\ RedirectsOf(gbp, gbp.policy_rule_sets[s]) # {}}

RowsOfPair(provider, consumer) ==
    {x \in chains.mapping : /\ x.provider_ptg_id = provider
                            /\ x.consumer_ptg_id = consumer}

InstancesOfPair(provider, consumer) ==
    {i \in DOMAIN chains.instances :
        /\ chains.instances[i].provider_ptg_id = provider
        /\ chains.instances[i].consumer_ptg_id = consumer}

\* C17: between the hooks, each pair of a providing and a consuming group
\* that a rule set with a redirect rule relates has exactly one mapping row
\* and exactly one live service chain instance.
C17_OneChainPerPair ==
    ctx.op = "none" =>
        \A provider, consumer \in DOMAIN gbp.policy_target_groups :
            RedirectRuleSets(provider, consumer) # {} =>
                /\ Cardinality(RowsOfPair(provider, consumer)) = 1
                /\ Cardinality(InstancesOfPair(provider, consumer)) = 1


\* A mapping row or a service chain instance names the group.
Names(sc, id) ==
    \/ \E x \in sc.mapping : x.provider_ptg_id = id \/ x.consumer_ptg_id = id
    \/ \E i \in DOMAIN sc.instances :
          \/ sc.instances[i].provider_ptg_id = id
          \/ sc.instances[i].consumer_ptg_id = id

\* The postcommit hook of the deletion of a policy target group, or of an
\* update that leaves it without provided and consumed policy rule sets.
UnrelatePostcommitStep ==
    /\ ctx.kind = "policy_target_group"
    /\ ctx' = NoCtx
    /\ \/ ctx.op = "delete"
       \/ /\ ctx.op = "update"
          /\ ctx.current.provided_policy_rule_sets = {}
          /\ ctx.current.consumed_policy_rule_sets = {}

\* C18: after the postcommit hook of a policy target group's deletion, or of
\* the update after which it provides and consumes no policy rule set, no
\* service chain instance and no mapping row names the group as provider or
\* as consumer.
C18_NoChainOfUnrelatedGroup ==
    [][UnrelatePostcommitStep => ~Names(chains', ctx.id)]_vars

-----------------------------------------------------------------------------
(* Claims about L3 policies, external segments and the associations that   *)
(* no update changes                                                         *)

\* The routes with a nexthop of the external segments.
SegmentRoutes(es_ids) ==
    WithNexthop(UNION {gbp.external_segments[es].external_routes :
                          es \in es_ids})

\* update_l3_policy_postcommit returns after a change of the external
\* segments of an L3 policy with a router.
SegmentsChangedStep ==
    /\ ctx.op = "update" /\ ctx.kind = "l3_policy"
    /\ ctx.current.external_segments # ctx.original.external_segments
    /\ Len(ctx.current.routers) > 0
    /\ ctx' = NoCtx
    /\ outcome'.status = "done"

\* The request to attach one more external segment to an L3 policy that has
\* one has been rejected.
SecondSegmentRejected ==
    /\ outcome.status = "rejected"
    /\ outcome.op = "update" /\ outcome.kind = "l3_policy"
    /\ outcome.request.current.routers = outcome.request.original.routers
    /\ outcome.request.original.external_segments # {}
    /\ outcome.request.original.external_segments
          \subseteq outcome.request.current.external_segments
    /\ outcome.request.original.external_segments
          # outcome.request.current.external_segments

\* C16: after update_l3_policy_postcommit has changed the external segments
\* of an L3 policy, the policy has at most one segment and its router has
\* exactly the routes of that segment that have a nexthop (the routes R2 after
\* E2 replaces E1, no route after the last segment goes); the request to
\* attach E2 next to E1 is rejected with MultipleESPerL3PolicyNotSupported
\* and leaves the router's routes as they were.
C16_RoutesOfTheOneSegment ==
    [][/\ SegmentsChangedStep =>
             /\ Cardinality(ctx.current.external_segments) <= 1
             /\ neutron'.routers[ctx.current.routers[1]].routes
                   = SegmentRoutes(ctx.current.external_segments)
       /\ SecondSegmentRejected' =>
             /\ outcome'.exc = "MultipleESPerL3PolicyNotSupported"
             /\ neutron' = neutron /\ gbp' = gbp]_vars

\* An update has given an L3 policy the segment whose routes are a route
\* with a nexthop and one without, and the router has the first only.
C16_Witness ==
    /\ outcome.status = "done"
    /\ outcome.op = "update" /\ outcome.kind = "l3_policy"
    /\ gbp.l3_policies["l3p1"].external_segments = {"es1"}
    /\ gbp.external_segments["es1"].external_routes
          = {<<"d1", "h1">>, <<"d0", "">>}
    /\ neutron.routers[RtrX].routes = {<<"d1", "h1">>}

\* C16 as stated: once the request to attach E2 to an L3 policy that has E1
\* has been handled, the router of the policy has the routes with a nexthop
\* of E1 and of E2.
C16_Original ==
    SecondSegmentRejected =>
        neutron.routers[outcome.request.current.routers[1]].routes
           = SegmentRoutes(outcome.request.current.external_segments)

\* The names of the exceptions for an update of an association.
AssociationExceptions ==
    [l2_policy |-> "L3PolicyUpdateOfL2PolicyNotSupported",
     policy_target_group |-> "L2PolicyUpdateOfPolicyTargetGroupNotSupported",
     l3_policy |-> "L3PolicyRoutersUpdateNotSupported",
     policy_target |-> "PolicyTargetGroupUpdateOfPolicyTargetNotSupported"]

\* The association of an object of the kind that no update changes.
Association(kind, object) ==
    IF kind = "l2_policy" THEN object.l3_policy_id
    ELSE IF kind = "policy_target_group" THEN object.l2_policy_id
    ELSE IF kind = "l3_policy" THEN object.routers
    ELSE object.policy_target_group_id

Tables ==
    [l2_policy |-> "l2_policies", policy_target_group |-> "policy_target_groups",
     l3_policy |-> "l3_policies", policy_target |-> "policy_targets"]

\* The request just judged is an update that changes the association.
AssociationUpdateJudged ==
    /\ outcome.op = "update" /\ outcome.kind \in DOMAIN Tables
    /\ outcome.status = "rejected"
    /\ Association(outcome.kind, outcome.request.current)
          # Association(outcome.kind, outcome.request.original)

\* The request changes inject_default_route, which CommonNeutronBase judges
\* before the association.
UnsetsInjectDefaultRoute(request) ==
    /\ "inject_default_route" \in DOMAIN request.current
    /\ request.current.inject_default_route
          # request.original.inject_default_route

\* C19: no step other than the hooks of its creation changes the L3 policy
\* of an L2 policy, the L2 policy of a policy target group, the routers of
\* an L3 policy or the group of a policy target while the object exists; no
\* update that changes one of them gets past its precommit hook, and its
\* rejection is the exception of the association (with CommonNeutronBase,
\* the one of inject_default_route when the update changes that too).
C19_ImmutableAssociations ==
    [][/\ \A kind \in DOMAIN Tables :
             \A id \in DOMAIN gbp[Tables[kind]] \cap DOMAIN gbp'[Tables[kind]] :
                \/ ctx.op = "create" /\ ctx.kind = kind /\ ctx.id = id
                \/ Association(kind, gbp'[Tables[kind]][id])
                      = Association(kind, gbp[Tables[kind]][id])
       /\ (ctx'.op = "update" /\ ctx'.kind \in DOMAIN Tables) =>
             Association(ctx'.kind, ctx'.current)
                = Association(ctx'.kind, ctx'.original)
       /\ AssociationUpdateJudged' =>
             outcome'.exc =
                IF UnsetsInjectDefaultRoute(outcome'.request)
                THEN "UnsettingInjectDefaultRouteOfL2PolicyNotSupported"
                ELSE AssociationExceptions[outcome'.kind]]_vars

\* The update of an L2 policy that names another L3 policy has been rejected.
C19_Witness ==
    /\ AssociationUpdateJudged
    /\ outcome.kind = "l2_policy"
    /\ outcome.exc = "L3PolicyUpdateOfL2PolicyNotSupported"
    /\ outcome.request.current.l3_policy_id = "l3p2"
    /\ gbp.l2_policies[outcome.request.id].l3_policy_id = "l3p1"

\* The request just judged is for an L3 policy.
L3PolicyJudged(op) ==
    /\ outcome.op = op /\ outcome.kind = "l3_policy"
    /\ outcome.status = "rejected"

\* C20: every stored L3 policy has at most one router and at most one
\* external segment; create_l3_policy_precommit rejects more than one router
\* with L3PolicyMultipleRoutersNotSupported and otherwise more than one
\* external segment with MultipleESPerL3PolicyNotSupported, and
\* update_l3_policy_precommit rejects more than one external segment with
\* that exception when the routers stay.
C20_OneRouterOneSegment ==
    /\ \A id \in DOMAIN gbp.l3_policies :
          /\ Len(gbp.l3_policies[id].routers) <= 1
          /\ Cardinality(gbp.l3_policies[id].external_segments) <= 1
    /\ L3PolicyJudged("create") =>
          IF Len(outcome.request.current.routers) > 1
          THEN outcome.exc = "L3PolicyMultipleRoutersNotSupported"
          ELSE Cardinality(outcome.request.current.external_segments) > 1
                  => outcome.exc = "MultipleESPerL3PolicyNotSupported"
    /\ L3PolicyJudged("update") =>
          IF outcome.request.current.routers
                # outcome.request.original.routers
          THEN outcome.exc = "L3PolicyRoutersUpdateNotSupported"
          ELSE Cardinality(outcome.request.current.external_segments) > 1
                  => outcome.exc = "MultipleESPerL3PolicyNotSupported"

\* An update that names two external segments has been rejected.
C20_Witness ==
    /\ L3PolicyJudged("update")
    /\ outcome.exc = "MultipleESPerL3PolicyNotSupported"
    /\ Cardinality(outcome.request.current.external_segments) = 2

-----------------------------------------------------------------------------
(* Claims about the comparison of actual and expected fabric resources      *)

\* Some non-identity attribute of the two resources differs, an array
\* attribute as a set.
Differs(c, expected_resource, actual_resource) ==
    \E a \in other_attributes(c) :
        IF a.type = "array"
        THEN {expected_resource[a.name][i] :
                 i \in DOMAIN expected_resource[a.name]}
                # {actual_resource[a.name][i] :
                     i \in DOMAIN actual_resource[a.name]}
        ELSE expected_resource[a.name] # actual_resource[a.name]

\* The actual resources with an expected counterpart that the step validates.
MatchedNow == {k \in actual_resources \ actual_resources' : k \in DOMAIN expected}

\* What the run does with the matched resource k that differs from its
\* expected counterpart: the overwrite when repairing, the failure when not.
RepairedOrFailed(k) ==
    IF repair
    THEN /\ session'.aim = Put(session.aim, k, expected[k])
         /\ <<"overwrite", k>> \in ops'
         /\ result' = VALIDATION_REPAIRED
    ELSE /\ result' = VALIDATION_FAILED
         /\ session' = session /\ ops' = ops

\* C30: a run consumes the expected entry of every actual resource that has
\* one, and creates no resource that was actual; it compares the two (array
\* attributes as sets) only when the expected resource has monitored=False,
\* and then overwrites the actual resource when repairing, or fails when not,
\* exactly when they differ; an expected resource that is monitored, or has
\* no monitored attribute, leaves its actual counterpart as it is, different
\* or not.
C30_ComparesUnmonitoredOnly ==
    [][RunStep =>
          /\ \A k \in MatchedNow :
                /\ k \notin DOMAIN expected'
                /\ IF ~Monitored(expected[k])
                      /\ Differs(k[1], expected[k], session.aim[k])
                   THEN RepairedOrFailed(k)
                   ELSE result' = result /\ session' = session /\ ops' = ops
          /\ \A k \in Keys :
                <<"create", k>> \in ops' \ ops =>
                    k \notin DOMAIN session.aim]_vars

\* A repairing run has overwritten a resource that differed from its expected
\* counterpart and left one that differed from a monitored counterpart.
C30_Witness ==
    /\ last.valid /\ last.repair /\ last.result = VALIDATION_REPAIRED
    /\ \E k \in DOMAIN aim_store \cap DOMAIN desired :
          <<"overwrite", k>> \in ops /\ aim_store[k] = desired[k]
    /\ \E k \in DOMAIN aim_store \cap DOMAIN desired :
          Differs(k[1], desired[k], aim_store[k])

\* C30 as stated: every actual resource that differs from its expected
\* counterpart is overwritten when repairing and fails the run when not.
C30_Original ==
    [][RunStep =>
          \A k \in MatchedNow :
             Differs(k[1], expected[k], session.aim[k]) =>
                RepairedOrFailed(k)]_vars

-----------------------------------------------------------------------------
(* Claims about the name-derivation callback, remap and the growth of a name *)

\* The decorated function was called by the last mapper call and raised.
CallbackRaised ==
    /\ call'.op = "mapper"
    /\ call'.kind = "computed"
    /\ call'.raised

\* C26: when the name-derivation callback of a mapper raises, the call
\* completes as if no name was provided: it persists the id with its runs of
\* dashes collapsed and returns that name (behind the prefix of the call, cut
\* to the maximum length, when a prefix is given).
C26_CallbackFailureFallsBackToId ==
    [][CallbackRaised
       => /\ ncalls' = ncalls + 1
          /\ <<call'.id, call'.type>> \in DOMAIN apic_names'
          /\ apic_names'[<<call'.id, call'.type>>].name = purge(call'.id)
          /\ call'.value = WithPrefix(call'.prefix, purge(call'.id))
          /\ call'.prefix = <<>> => call'.value = purge(call'.id)]_vars

\* The callback raised in a call for the id with two dashes in a row, and the
\* name persisted and returned has one.
C26_Witness ==
    /\ call.op = "mapper" /\ call.kind = "computed" /\ call.raised
    /\ call.id = IdShort /\ call.prefix = <<>>
    /\ call.value = <<"a", "-", "a", "a", "a">>
    /\ apic_names[<<IdShort, call.type>>].name = call.value

\* The last mapper call had remap=True and went past the existing=True exit.
RemapStep ==
    /\ call'.op = "mapper"
    /\ call'.kind = "computed"
    /\ call'.remap

\* A mapping call without remap for an id and name type remapped before and
\* not deleted or remapped since.
CallAfterRemap ==
    /\ call'.op = "mapper"
    /\ call'.kind # "existing"
    /\ ~call'.remap
    /\ <<call'.id, call'.type>> \in DOMAIN remapped

Stripped(current_result) ==
    IF current_result[Len(current_result)] = "_"
    THEN SubSeq(current_result, 1, Len(current_result) - 1)
    ELSE current_result

\* The candidate _grow_id_if_needed looks up after it appended n characters
\* of the id from the offset start on, behind an underscore when start is 0.
Candidate(current_result, resource_id, start, n) ==
    Stripped(current_result)
        \o (IF n > 0 /\ start = 0 THEN <<"_">> ELSE <<>>)
        \o SubSeq(resource_id, start + 1, start + n)

InUse(name) ==
    get_filtered_apic_names(apic_names, NAME_TYPE_NETWORK, name) # {}

\* The id characters from the offset start on.
Available(resource_id, start) ==
    IF Len(resource_id) > start THEN Len(resource_id) - start ELSE 0

\* C28: _grow_id_if_needed returns for every id, offset and store.  It has
\* appended at most len(id) - start characters of the id (none when the
\* offset is past the id), every candidate it went past was in use, and it
\* stopped either at a candidate no record of the name type uses or, all id
\* characters used up, at a candidate that is still in use.
C28_GrowStopsWithinTheId ==
    call.op = "_grow_id_if_needed"
       => /\ call.appended <= Available(call.id, min_suffix)
          /\ \A n \in 0..(call.appended - 1) :
                InUse(Candidate(call.current_result, call.id, min_suffix, n))
          /\ call.log \in {"none", "ran_out", "no_filter"}
          /\ call.log = "none"
                => /\ db_filters
                   /\ call.value = Candidate(call.current_result, call.id,
                                             min_suffix, call.appended)
                   /\ ~InUse(call.value)
          /\ call.log = "ran_out"
                => /\ db_filters
                   /\ call.appended = Available(call.id, min_suffix)
                   /\ InUse(Candidate(call.current_result, call.id,
                                      min_suffix, call.appended))
                   /\ call.value
                        = Candidate(call.current_result, call.id, min_suffix,
                                    call.appended)
                             \o (IF call.appended = 0 /\ min_suffix = 0
                                 THEN <<"_">> ELSE <<>>)
          /\ call.log = "no_filter"
                => /\ ~db_filters
                   /\ call.appended = 0
                   /\ call.value = Stripped(call.current_result)

\* All three characters of an id were appended, every candidate on the way
\* being taken, and the last candidate is returned although it is taken too.
C28_Witness ==
    /\ call.op = "_grow_id_if_needed"
    /\ call.log = "ran_out"
    /\ min_suffix = 0
    /\ call.appended = 3
    /\ call.value = <<"n", "_", "a", "b", "c">>
    /\ InUse(call.value)

-----------------------------------------------------------------------------
(* Claims about the exhaustion of an L3 policy's pool *)

\* The candidates of the pool that overlap no subnet in use under the L3
\* policy of the group.
FreeCandidates(w, ptg_id) ==
    {c \in 1..PoolSize :
        \A x \in SubnetsInUse(w, L3pOf(w.g, ptg_id)) :
           w.n.subnets[x].cidr # c}

\* Neutron refuses the candidate as a bad request: the subnet create on the
\* group's network, or the attachment of the created subnet to the router of
\* the L3 policy.
Rejected(w, ptg_id, cidr) ==
    LET l2p == w.g.l2_policies[w.g.policy_target_groups[ptg_id].l2_policy_id]
        l3p == w.g.l3_policies[l2p.l3_policy_id]
        w1 == create_subnet(w, [network_id |-> l2p.network_id,
                                cidr |-> cidr])
    IN \/ w1.exc = "BadRequest"
       \/ /\ w1.exc = ""
          /\ Len(l3p.routers) > 0
          /\ add_router_interface(w1, l3p.routers[1], w1.ret).exc
                = "BadRequest"

-----------------------------------------------------------------------------
(* Claims about cross-tenant references *)

\* A create precommit hook has just judged a request.
CreatePrecommitStep ==
    /\ ctx.op = "none"
    /\ outcome' # outcome
    /\ outcome'.op = "create"
    /\ outcome'.status \in {"accepted", "rejected"}

\* The request the create precommit hook has judged.
JudgedRequest == IF outcome'.status = "rejected" THEN outcome'.request ELSE ctx'

\* The request refers to something of another tenant: a group to an L2
\* policy, an L2 policy to an L3 policy or to an explicit network, an L3
\* policy to an explicit router; a network or router that is not found counts
\* as one of another tenant.
CrossTenantReference(c) ==
    \/ /\ c.kind = "policy_target_group"
       /\ gbp.l2_policies[c.current.l2_policy_id].tenant_id
              # c.current.tenant_id
    \/ /\ c.kind = "l2_policy"
       /\ \/ gbp.l3_policies[c.current.l3_policy_id].tenant_id
                # c.current.tenant_id
          \/ /\ c.current.network_id # ""
             /\ \/ c.current.network_id \notin DOMAIN neutron.networks
                \/ neutron.networks[c.current.network_id].tenant_id
                      # c.current.tenant_id
    \/ /\ c.kind = "l3_policy"
       /\ \E r \in Range(c.current.routers) :
             \/ r \notin DOMAIN neutron.routers
             \/ neutron.routers[r].tenant_id # c.current.tenant_id

\* C21: a create precommit of a policy target group, an L2 policy or an L3
\* policy whose request makes a cross-tenant reference is rejected, and
\* nothing is changed.
C21_CrossTenantRejected ==
    [][(CreatePrecommitStep /\ CrossTenantReference(JudgedRequest))
       => /\ outcome'.status = "rejected"
          /\ outcome'.exc # ""
          /\ UNCHANGED <<gbp, neutron, owned, next_id, ctx>>]_vars

\* An L2 policy of tenant t1 on the network of tenant t2 that is shared with
\* all tenants has been rejected.
C21_Witness ==
    /\ outcome.status = "rejected" /\ outcome.op = "create"
    /\ outcome.kind = "l2_policy"
    /\ outcome.exc = "InvalidNetworkAccess"
    /\ outcome.request.current.tenant_id = "t1"
    /\ outcome.request.current.network_id = NetY
    /\ gbp.l3_policies[outcome.request.current.l3_policy_id].tenant_id = "t1"

-----------------------------------------------------------------------------
(* Claims about a precommit hook that raises *)

\* A precommit hook that works inside the plugin's transaction has raised.
PrecommitRaisedStep ==
    /\ ctx.op = "none"
    /\ outcome'.status = "rejected"
    /\ "fails" \in DOMAIN outcome'.request

-----------------------------------------------------------------------------
(* Claims about the mechanism driver: sync state, port binding, RPC *)

\* The sync state the statuses of an entity's fabric objects call for.
ExpectedSyncState(statuses) ==
    IF \E i \in DOMAIN statuses : statuses[i].is_error THEN SYNC_ERROR
    ELSE IF \E i \in DOMAIN statuses : statuses[i].is_build THEN SYNC_BUILD
    ELSE SYNC_SYNCED

\* The orders the statuses can be merged in.
Orders(statuses) ==
    {t \in [DOMAIN statuses -> Range(statuses)] :
        \E f \in [DOMAIN statuses -> DOMAIN statuses] :
           /\ \A i, j \in DOMAIN statuses : i # j => f[i] # f[j]
           /\ \A i \in DOMAIN statuses : t[i] = statuses[f[i]]}

\* C23: the sync state merged from 'synced' over the statuses of the fabric
\* objects of an entity is 'error' when one of them is in error, otherwise
\* 'build' when one is in build, otherwise 'synced', and merging them in
\* another order gives the same.
C23_SyncStateMerge ==
    md.op \in {"extend_network_dict", "merge_statuses"}
       => /\ md.sync_state = ExpectedSyncState(md.statuses)
          /\ \A t \in Orders(md.statuses) :
                MergeAll(SYNC_SYNCED, t) = md.sync_state

\* A bridge domain in error and an endpoint group in build give 'error', and
\* so does a status in build merged after one in error.
C23_Witness ==
    /\ md.op = "extend_network_dict"
    /\ md.statuses[1].is_error /\ ~md.statuses[2].is_error
    /\ md.statuses[2].is_build
    /\ md.sync_state = SYNC_ERROR

\* The calls of a bind strategy that called set_binding.
Bindings == {k \in DOMAIN md.log : md.log[k].set_binding}

\* C24 as stated: in one bind_port call set_binding is called at most once,
\* no agent and no segment is tried after the call that set the binding, and
\* no agent that is not alive is passed to a bind strategy.
C24_BindsAtMostOnce ==
    md.op = "bind_port"
       => /\ Cardinality(Bindings) <= 1
          /\ \A k \in Bindings : k = Len(md.log)
          /\ \A k \in DOMAIN md.log : md.log[k].alive

\* An agent that is not alive is not passed to a bind strategy.
DeadAgentsNotTried ==
    md.op = "bind_port" => \A k \in DOMAIN md.log : md.log[k].alive

RpcHandlers ==
    {"get_gbp_details", "request_endpoint_details",
     "AIMMappingRPCMixin.get_gbp_details",
     "AIMMappingRPCMixin.request_endpoint_details"}

\* C25 as stated: get_gbp_details and request_endpoint_details propagate no
\* exception whatever the request, and get_gbp_details answers a failure of
\* the detail assembly with exactly {'device': device}.
C25_HandlersNeverRaise ==
    md.op \in RpcHandlers
       => /\ md.result.raised = ""
          /\ (/\ md.op \in {"get_gbp_details",
                            "AIMMappingRPCMixin.get_gbp_details"}
              /\ md.how = "raise")
                => /\ md.result.kind = "dict"
                   /\ md.result.value
                          = ("device" :> Get(md.kwargs, "device"))

\* get_gbp_details alone propagates nothing, with or without a device.
GetGbpDetailsNeverRaises ==
    md.op \in {"get_gbp_details", "AIMMappingRPCMixin.get_gbp_details"}
       => /\ md.result.raised = ""
          /\ md.how = "raise"
                => /\ md.result.kind = "dict"
                   /\ md.result.value
                          = ("device" :> Get(md.kwargs, "device"))

-----------------------------------------------------------------------------
(* C31: the checks that follow a failure *)

\* A step that leaves the mapping-validation phase of a run.
MappingPhaseEnds == v_pc = "mapping" /\ v_pc' # "mapping"

\* A step that ends the run from within the comparison of the fabric
\* resources.
ComparisonEnds == v_pc = "aim_resources" /\ v_pc' = "idle"

\* A step of a run whose result is already failed.
StepAfterFailure == v_pc # "idle" /\ result = VALIDATION_FAILED

\* C31 as stated: once the result of a run is failed, in a mapping-validation
\* phase or at an earlier resource, every registered resource class is still
\* compared, actual against expected, and nothing is repaired any more.
C31_ChecksRunAfterFailure ==
    [][/\ MappingPhaseEnds
          => v_pc' = "aim_resources" /\ classes_left' = Classes
       /\ ComparisonEnds => classes_left = {} /\ ClassDone
       /\ StepAfterFailure => ops' = ops /\ session' = session]_vars

\* What holds: a failure at a resource does not end the comparison (every
\* class and every resource left is still looked at), and no step of a failed
\* run repairs anything; the comparison is entered with every class unless
\* the mapping-validation phases have failed.
FailureInComparisonKeepsComparing ==
    [][/\ MappingPhaseEnds /\ result # VALIDATION_FAILED
          => v_pc' = "aim_resources" /\ classes_left' = Classes
       /\ ComparisonEnds => classes_left = {} /\ ClassDone
       /\ StepAfterFailure => ops' = ops /\ session' = session]_vars

\* A failure of the mapping-validation phases ends the run without any
\* comparison of the fabric resources.
FailedMappingSkipsComparison ==
    [][MappingPhaseEnds /\ result = VALIDATION_FAILED
          => v_pc' = "finish" /\ classes_left' = {}]_vars

-----------------------------------------------------------------------------
(* C32: the rules for which _handle_redirect_action makes an instance *)

\* The pairs (provider, consumer) that have a service chain instance.
PairsWithInstance(sc) ==
    {<<sc.instances[i].provider_ptg_id, sc.instances[i].consumer_ptg_id>> :
        i \in DOMAIN sc.instances}

\* A postcommit hook runs.
PostcommitStep == ctx.op # "none" /\ ctx' = NoCtx

\* The pairs that have an instance after the step and had none before it.
NewPairs == PairsWithInstance(chains') \ PairsWithInstance(chains)

\* The rule sets of g which the first group provides and the second
\* consumes, with a rule among rules(s) that has a redirect action.
RelatingRuleSets(g, pair, rules(_)) ==
    {s \in DOMAIN g.policy_rule_sets :
        /\ s \in g.policy_target_groups[pair[1]].provided_policy_rule_sets
        /\ s \in g.policy_target_groups[pair[2]].consumed_policy_rule_sets
        /\ \E r \in rules(s) :
              RedirectActions(g, g.policy_rules[r].policy_actions) # {}}

\* The enforced rules of a rule set: those which _get_enforced_prs_rules
\* returns for it.
EnforcedRules(g, s) == _get_enforced_prs_rules(g, g.policy_rule_sets[s], None)

\* The rules of a rule set which the loop of _handle_redirect_action reaches.
ReachedRules(g, s) == {x[1] : x \in RedirectsOf(g, g.policy_rule_sets[s])}

\* C32 as stated: a pair of groups gets a service chain instance only for an
\* enforced rule with a redirect action of a rule set that relates the pair;
\* with a parent, a rule whose classifier is the classifier of no rule of the
\* parent gets none, whether the parent has a redirect rule or not.
C32_ChainsForEnforcedRulesOnly ==
    [][PostcommitStep =>
          \A pair \in NewPairs :
             LET rules(s) == EnforcedRules(gbp', s)
             IN RelatingRuleSets(gbp', pair, rules) # {}]_vars

\* What holds: a pair gets an instance only for a redirect rule that passes
\* the filter of lines 1123-1125, which is in force only when the parent has
\* a rule with a redirect action (and then lets through the rules with the
\* classifier of that rule only).
ChainsForReachedRulesOnly ==
    [][PostcommitStep =>
          \A pair \in NewPairs :
             LET rules(s) == ReachedRules(gbp', s)
             IN RelatingRuleSets(gbp', pair, rules) # {}]_vars

\* A rule that the loop reaches under a parent with a redirect rule is an
\* enforced rule.
ReachedUnderRedirectingParentIsEnforced ==
    \A s \in DOMAIN gbp.policy_rule_sets :
        ParentClassifier(gbp, gbp.policy_rule_sets[s]) # ""
           => ReachedRules(gbp, s) \subseteq EnforcedRules(gbp, s)

-----------------------------------------------------------------------------
(* C33: the redirect actions of the stored rules and rule sets *)

\* Each stored policy rule has at most one redirect action.
OneRedirectInEachRule ==
    \A r \in DOMAIN gbp.policy_rules :
        Cardinality(RedirectsIn(gbp.policy_rules[r])) <= 1

\* C33 as stated: whatever creations and updates of policy rules and policy
\* rule sets have been accepted, each policy rule has at most one redirect
\* action and each policy rule set has at most one redirect action among the
\* actions of its rules.
C33_AtMostOneRedirect ==
    /\ OneRedirectInEachRule
    /\ \A s \in DOMAIN gbp.policy_rule_sets :
          Cardinality(OwnRedirects(gbp.policy_rule_sets[s])) <= 1

\* The update of a policy rule has just been accepted.
RuleUpdateAccepted ==
    /\ outcome.kind = "policy_rule" /\ outcome.op = "update"
    /\ outcome.status = "accepted"

\* What holds for rule sets: a rule set has two redirect actions among its
\* rules only after the update of one of its rules (the creation and the
\* update of the rule set itself never leave it with two).
TwoRedirectsOnlyByRuleUpdate ==
    [][(\E s \in DOMAIN gbp'.policy_rule_sets :
           /\ Cardinality(OwnRedirects(gbp.policy_rule_sets[s])') > 1
           /\ s \in DOMAIN gbp.policy_rule_sets
                 => Cardinality(OwnRedirects(gbp.policy_rule_sets[s])) <= 1)
          => RuleUpdateAccepted']_vars

-----------------------------------------------------------------------------
(* C34: the update of an external policy that drops a consumed rule set *)

\* update_external_policy_postcommit runs to its end.
ExternalPolicyUpdated ==
    /\ ctx.op = "update" /\ ctx.kind = "external_policy"
    /\ ctx' = NoCtx /\ outcome'.status = "done"

RemovedConsumed ==
    ctx.original.consumed_policy_rule_sets
       \ ctx.current.consumed_policy_rule_sets

KeptConsumed ==
    ctx.original.consumed_policy_rule_sets
       \cap ctx.current.consumed_policy_rule_sets

\* The groups that provide a kept rule set with a redirect rule and had a
\* service chain instance with the external policy before the hook.
KeptProviders ==
    {p \in DOMAIN gbp.policy_target_groups :
        /\ \E s \in KeptConsumed :
              /\ s \in gbp.policy_target_groups[p].provided_policy_rule_sets
              /\ RedirectsOf(gbp, gbp.policy_rule_sets[s]) # {}
        /\ <<p, ctx.id>> \in PairsWithInstance(chains)}

\* C34 as stated: when the update of an external policy removes a consumed
\* rule set and keeps another one that has a redirect rule, the service
\* chain instance of the kept rule set exists after
\* update_external_policy_postcommit.
C34_KeptRuleSetKeepsItsChain ==
    [][(ExternalPolicyUpdated /\ RemovedConsumed # {})
          => \A p \in KeptProviders :
                <<p, ctx.id>> \in PairsWithInstance(chains')]_vars

\* What holds: an update that removes no consumed rule set leaves every
\* instance of the external policy in place or replaces it.
UpdateWithoutRemovalKeepsChains ==
    [][(ExternalPolicyUpdated /\ RemovedConsumed = {})
          => \A p \in KeptProviders :
                <<p, ctx.id>> \in PairsWithInstance(chains')]_vars

\* The cleanup of an update that removes a consumed rule set takes every
\* instance of the external policy, and only the rule sets that the update
\* adds get theirs made anew.
RemovalDropsKeptChains ==
    [][(ExternalPolicyUpdated /\ RemovedConsumed # {})
          => \A p \in KeptProviders :
                <<p, ctx.id>> \in PairsWithInstance(chains')
                   => \E s \in ctx.current.consumed_policy_rule_sets
                                  \ ctx.original.consumed_policy_rule_sets :
                         s \in gbp.policy_target_groups[p]
                                  .provided_policy_rule_sets]_vars

-----------------------------------------------------------------------------
(* C37: the subnets that _use_implicit_subnet creates *)

\* The postcommit hook of the creation of a group without subnets runs:
\* _use_implicit_subnet returns or raises.
ImplicitSubnetReturns == ImplicitSubnetStep /\ ctx' = NoCtx

\* The subnets that exist after the step and did not exist before it.
SubnetsLeft == DOMAIN neutron'.subnets \ DOMAIN neutron.subnets

\* C37 as stated: when _use_implicit_subnet returns or raises, every subnet
\* it created is attached to the policy target group and marked owned, or
\* has been deleted again.
C37_NoSubnetLeftBehind ==
    [][ImplicitSubnetReturns =>
          \A s \in SubnetsLeft :
             /\ s \in owned'.subnets
             /\ s \in Range(gbp'.policy_target_groups[ctx.id].subnets)]_vars

\* What holds: the hook leaves at most one subnet that is owned and attached
\* to the group, and every other subnet it leaves has the CIDR of a
\* candidate that it tried before the one it took.
OnlySkippedCandidatesLeftBehind ==
    [][ImplicitSubnetReturns =>
          /\ Cardinality(SubnetsLeft \cap owned'.subnets) <= 1
          /\ \A s \in SubnetsLeft :
                \/ /\ s \in owned'.subnets
                   /\ s \in Range(gbp'.policy_target_groups[ctx.id].subnets)
                \/ /\ s \notin owned'.subnets
                   /\ \E i \in DOMAIN outcome'.tried :
                         outcome'.tried[i] = neutron'.subnets[s].cidr]_vars

-----------------------------------------------------------------------------
(* C35: two executions of _handle_redirect_action for the same pair *)

\* Both executions have come to their end.
BothFinished == \A p \in Procs : procs.of[p].pc \in {"done", "raised"}

\* The pairs of a providing and a consuming group.
GroupPairs ==
    (DOMAIN gbp.policy_target_groups) \X (DOMAIN gbp.policy_target_groups)

\* C35 as stated: once two concurrent executions of _handle_redirect_action
\* for the same pair of groups have finished, whatever their interleaving,
\* the pair has at most one PtgServiceChainInstanceMapping row and at most
\* one service chain instance.
C35_OneChainAfterConcurrentHandlers ==
    BothFinished =>
        \A pair \in GroupPairs :
            /\ Cardinality(RowsOfPair(pair[1], pair[2])) <= 1
            /\ Cardinality(InstancesOfPair(pair[1], pair[2])) <= 1

\* What holds: two executions of which the second begins after the first has
\* ended leave one row and one instance for each pair.
OneChainAfterSerialHandlers ==
    (BothFinished /\ ~procs.concurrent) =>
        \A pair \in GroupPairs :
            /\ Cardinality(RowsOfPair(pair[1], pair[2])) <= 1
            /\ Cardinality(InstancesOfPair(pair[1], pair[2])) <= 1

-----------------------------------------------------------------------------
(* C36: two executions of _use_implicit_subnet under one L3 policy *)

\* Both executions have returned with a subnet.
BothAllocated == \A p \in Procs : procs.of[p].pc = "done"

\* The CIDR of the subnet that execution p has allocated.
AllocatedCidr(p) == neutron.subnets[procs.of[p].subnet_id].cidr

-----------------------------------------------------------------------------
(* C38: create_network_precommit followed by delete_network_precommit for    *)
(* the same network leaves no bridge domain and no endpoint group of that    *)
(* network in the fabric store and no name record of the network id, and a   *)
(* later create of the same id computes its name afresh.                     *)

NetworkDeleted == md.op = "delete_network_precommit"

NetworkCreated == md.op = "create_network_precommit" /\ ~md.raised

\* C38: after delete_network_precommit of a network that was created, the
\* bridge domain and the endpoint group it was created under are gone, no
\* name record of its id is left, and the name of a network that is created
\* is never a saved one.
C38_CreateThenDeleteLeavesNothing ==
    /\ NetworkDeleted =>
           /\ BdKey(md.tenant_aname, md.aname) \notin DOMAIN aim_store
           /\ EpgKey(md.tenant_aname, md.aname) \notin DOMAIN aim_store
           /\ NamesOf(apic_names, md.id) = {}
    /\ NetworkCreated => md.kind = "computed"

\* A network was created, its fabric names are those of another live
\* network's tenant, and it has been deleted: the other network is still
\* there.
C38_Witness ==
    /\ NetworkDeleted
    /\ md.kind = "saved"
    /\ \E other \in DOMAIN neutron.networks :
           neutron.networks[other].tenant_aname = md.tenant_aname

\* Every live network has its bridge domain and its endpoint group under
\* the saved name of its id.
LiveNetworksHaveBdAndEpg ==
    md.op \in {"create_network_precommit", "update_network_precommit",
               "delete_network_precommit"} =>
        \A id \in DOMAIN neutron.networks :
            LET net == neutron.networks[id]
            IN /\ <<id, NAME_TYPE_NETWORK>> \in DOMAIN apic_names
               /\ apic_names[<<id, NAME_TYPE_NETWORK>>].name = net.aname
               /\ BdKey(net.tenant_aname, net.aname) \in DOMAIN aim_store
               /\ EpgKey(net.tenant_aname, net.aname) \in DOMAIN aim_store

-----------------------------------------------------------------------------
(* C39: _remove_ip_from_allocation_pool followed by                          *)
(* _restore_ip_to_allocation_pool, for an address that _get_last_free_ip     *)
(* returned, is a round trip on the allocation pools of the subnet.          *)

AddressReserved ==
    /\ outcome.op = "_handle_network_service_policy"
    /\ outcome.status = "reserved"

AddressReleased ==
    /\ outcome.op = "_cleanup_network_service_policy"
    /\ outcome.status = "released"

PoolsOfSubnet == neutron.subnets[SubX].allocation_pools

\* C39: once the reserved address is released the pools cover the addresses
\* they covered before the reservation and no address is in two pools, and
\* while the address is reserved no pool ends before it starts.
C39_ReserveReleaseRoundTrip ==
    /\ AddressReleased =>
           /\ Allocatable(PoolsOfSubnet) = Allocatable(outcome.original)
           /\ NoAddressInTwoPools(PoolsOfSubnet)
    /\ AddressReserved => NoInvertedPool(PoolsOfSubnet)

\* The reserved address was the end of a pool of more than one address:
\* the round trip gives the pools of before.
RoundTripAtEndOfPool ==
    AddressReleased /\ outcome.before # outcome.original
                    /\ ValidPools(outcome.before)
        => PoolsOfSubnet = outcome.original

\* Where Neutron refused every list of pools that is not valid, the pools
\* after the release cover what they covered before the reservation.
RoundTripWhilePoolsValid ==
    AddressReleased /\ ValidPools(outcome.original)
                    /\ ValidPools(outcome.before)
                    /\ ValidPools(PoolsOfSubnet)
        => Allocatable(PoolsOfSubnet) = Allocatable(outcome.original)

-----------------------------------------------------------------------------
(* C40: every response of get_gbp_details is a record with the key 'device'  *)
(* and the requested device as its value, whether the details are complete,  *)
(* the port is not found, the port is bound to another host, or the handler  *)
(* failed inside.                                                            *)

HasRequestedDevice(response, kwargs) ==
    /\ response.kind = "dict"
    /\ "device" \in DOMAIN response.value
    /\ response.value["device"] = Get(kwargs, "device")

\* C40 as stated: every response of get_gbp_details, of the mechanism driver
\* and of the RPC mixin, is a record with the requested device under 'device'.
C40_ResponseHasDevice ==
    md.op \in {"get_gbp_details", "AIMMappingRPCMixin.get_gbp_details"}
        => HasRequestedDevice(md.result, md.kwargs)

\* The response of the mechanism driver lacks the device only when the port
\* is bound to another host than the one that asks; it is None then.
NoDeviceOnlyWhenNotBound ==
    md.op = "get_gbp_details" /\ ~HasRequestedDevice(md.result, md.kwargs)
        => md.how = "not_bound" /\ md.result = ReturnsNone

\* Every response of get_gbp_details of the RPC mixin has the device.
MixinResponseHasDevice ==
    md.op = "AIMMappingRPCMixin.get_gbp_details"
        => HasRequestedDevice(md.result, md.kwargs)

====
